---- MODULE Spec2Model ----
(***************************************************************************)
(* A model of vekt (Khushiyant/vekt): the safetensors ingestor, the       *)
(* restorer, the content-addressed blob store, the garbage collector and  *)
(* the repository lock, as state machines translated from the Rust code.  *)
(*                                                                         *)
(* Several specifications share the module:                                 *)
(*   SpecRestore  process() followed by VektManifest::restore()            *)
(*   SpecStore    the parallel blob-write pass of process(), step by step  *)
(*                on a file system of names, inodes and open handles       *)
(*   SpecRepo     CLI invocations (add, gc) racing on one repository       *)
(*   SpecAdd      SpecRepo with `vekt add` invocations only                 *)
(*   SpecGc       SpecRepo with `vekt gc` invocations only                  *)
(*   SpecInterrupt SpecAdd with interrupt signals                          *)
(*   SpecManifest manifests built by insertion, serialized and parsed      *)
(*   SpecOpen     SafetensorFile::open on files of every length            *)
(*   SpecCli      the exit code of one CLI invocation                      *)
(*   SpecPipe     the history scan of gc and its child process             *)
(*   SpecDiff     VektManifest::diff on pairs of manifests                 *)
(*   SpecDiscover repository discovery and `vekt remote` in a directory    *)
(*                chain                                                    *)
(* Each specification holds the variables of the others constant.          *)
(***************************************************************************)
EXTENDS Integers, Sequences, FiniteSets, TLC

VARIABLES
    \* ---- SpecRestore: ingest + restore ----
    file,                 \* the input safetensors file F (SafetensorFile)
    manifest,             \* the VektManifest returned by process()
    blobs,                \* the blob store: hash -> stored bytes
    rpc,                  \* position in process()/restore()
    save_blobs,           \* the argument of process()
    rfilter,              \* restore's `filter: Option<&str>`
    sorted_tensor_names,  \* storage.rs:79
    ri,                   \* loop index of pass 1 / pass 2 (1-based)
    header_map,           \* storage.rs:95, an IndexMap kept as a sequence
    current_offset,       \* storage.rs:96
    written_hashes,       \* storage.rs:99
    current_write_pos,    \* storage.rs:146
    out_data,             \* the bytes written after the header of F'
    copies,               \* one record per blob copied by pass 2
    finish_order,         \* the order in which the hashing tasks of process() finish
    process_error,        \* how process() failed, if it did
    out_exists,           \* whether a file stands at restore's output_path
    \* ---- SpecStore: the blob-write pass on a file system ----
    fs_dir,               \* .vekt/blobs: file name -> inode (0: no entry)
    fs_data,              \* inode -> the bytes the file holds
    task_data,            \* the slice each blob-write task was given
    task_pc,              \* where each task stands in save_blob_deduplicated
    task_fd,              \* the inode of the task's open handle `f` (0: none)
    task_off,             \* the bytes write_all has written through `f`
    task_existed,         \* `existed` of the task's save_blob_deduplicated call
    proc_result,          \* what process() returned, or "running"/"crashed"
    recovering,           \* this run of process() follows one that was killed
    \* ---- SpecRepo: CLI invocations on one repository ----
    cmd,                  \* the subcommand of each invocation
    ppc,                  \* where each invocation stands
    lock_file,            \* whether <root>/.vekt/lock exists
    lock_held,            \* whether the invocation owns a live LockFile
    repo_blobs,           \* the entries of <root>/.vekt/blobs
    tree,                 \* the *.vekt.json files of the working tree
    git_dir,              \* whether <root>/.git exists
    git_objects,          \* the objects `git rev-list --all --objects` lists
    add_input,            \* the safetensors file each add was given
    add_todo,             \* the blobs an add has still to write
    gc_refs,              \* run_gc's referenced_hashes
    gc_list,              \* the entries read_dir has still to yield
    gc_seen,              \* the entries read_dir has yielded
    gc_stats,             \* GcStats
    gc_alone,             \* no other invocation ran since this gc started
    gc_start_blobs,       \* the store when this gc started
    gc_error,             \* whether a scan of this gc returned an error
    \* ---- SpecManifest: two manifests of the same tensors ----
    mf_target,            \* the tensors both manifests are to hold
    mf_tensors,           \* VektManifest.tensors of each manifest
    mf_hist,              \* the names in the order they were inserted
    mf_pc,                \* where each manifest stands
    mf_json,              \* the serialized form of each manifest
    mf_parsed,            \* the manifest parsed from mf_json
    mf_rejson,            \* the serialized form of mf_parsed
    \* ---- SpecOpen: SafetensorFile::open ----
    open_len,             \* the length of the file in bytes
    open_header_len,      \* the u64 its first 8 bytes hold, as 16-bit limbs
    open_checks,          \* whether the build checks arithmetic overflow
    open_content,         \* what the header bytes are
    open_result,          \* what open() did
    \* ---- SpecDiscover: repository discovery and `vekt remote` ----
    cwd,                  \* the current directory, as its depth below "/"
    dot_vekt,             \* what <dir>/.vekt is, for cwd's deepest branch
    config_json,          \* <dir>/.vekt/config.json
    env_vekt_root,        \* the environment variable VEKT_ROOT
    disc_cmd,             \* the operation that ran
    disc_result,          \* what it returned
    \* ---- SpecCli: one invocation of the CLI, statement by statement ----
    cli_cmd,              \* the subcommand
    cli_faults,           \* the operations of the run that fail
    cli_pc,               \* the step of the subcommand to run next
    cli_failed,           \* the failing operations the run came upon
    cli_done,             \* whether the process has exited
    cli_exit,             \* its exit code
    \* ---- SpecPipe: scan_git_history and its `git cat-file --batch` ----
    scan_pc,              \* where scan_git_history stands
    manifest_objects,     \* the SHAs it has still to write to the child
    stdin_pipe,           \* the SHA lines buffered in the child's stdin pipe
    stdin_open,           \* whether the parent still holds the write end
    child,                \* the child: "idle", "holding" a frame, "exited"
    stdout_pipe,          \* the output frames buffered in the stdout pipe
    frames_read,          \* the frames the parent has read
    \* ---- SpecDiff: VektManifest::diff on two manifests ----
    diff_old,             \* `self`
    diff_new,             \* `other`
    diff_pc,              \* "ready", "done" or "panicked"
    comparison            \* the ManifestComparison returned

restoreVars == <<file, manifest, blobs, rpc, save_blobs, rfilter, sorted_tensor_names, ri,
                 header_map, current_offset, written_hashes,
                 current_write_pos, out_data, copies, finish_order,
                 process_error, out_exists>>

storeVars == <<fs_dir, fs_data, task_data, task_pc, task_fd, task_off, task_existed, proc_result,
               recovering>>

repoVars == <<cmd, ppc, lock_file, lock_held, repo_blobs, tree, git_dir,
              git_objects, add_input, add_todo, gc_refs, gc_list, gc_seen,
              gc_stats, gc_alone, gc_start_blobs, gc_error>>

manifestVars == <<mf_target, mf_tensors, mf_hist, mf_pc, mf_json, mf_parsed, mf_rejson>>

openVars == <<open_len, open_header_len, open_checks, open_content, open_result>>

discVars == <<cwd, dot_vekt, config_json, env_vekt_root, disc_cmd, disc_result>>

cliVars == <<cli_cmd, cli_faults, cli_pc, cli_failed, cli_done, cli_exit>>

pipeVars == <<scan_pc, manifest_objects, stdin_pipe, stdin_open, child,
              stdout_pipe, frames_read>>

\* the variables of the smaller specifications
diffVars == <<diff_old, diff_new, diff_pc, comparison>>

auxVars == <<discVars, cliVars, pipeVars, diffVars>>

vars == <<restoreVars, storeVars, repoVars, manifestVars, openVars, auxVars>>

\* what the actions of one specification leave alone
RestoreFrame  == UNCHANGED <<storeVars, repoVars, manifestVars, openVars, auxVars>>
StoreFrame    == UNCHANGED <<restoreVars, repoVars, manifestVars, openVars, auxVars>>
RepoFrame     == UNCHANGED <<restoreVars, storeVars, manifestVars, openVars, auxVars>>
ManifestFrame == UNCHANGED <<restoreVars, storeVars, repoVars, openVars, auxVars>>
OpenFrame     == UNCHANGED <<restoreVars, storeVars, repoVars, manifestVars, auxVars>>
MainFrame     == UNCHANGED <<restoreVars, storeVars, repoVars, manifestVars, openVars>>
DiscFrame     == MainFrame /\ UNCHANGED <<cliVars, pipeVars, diffVars>>
CliFrame      == MainFrame /\ UNCHANGED <<discVars, pipeVars, diffVars>>
PipeFrame     == MainFrame /\ UNCHANGED <<discVars, cliVars, diffVars>>
DiffFrame     == MainFrame /\ UNCHANGED <<discVars, cliVars, pipeVars>>

(***************************************************************************)
(* Bounds                                                                  *)
(***************************************************************************)
MaxTensors == 2
MaxFileLen == 12
\* the tensors (blob-write tasks) of the file SpecStore ingests
NTasks == 3
\* the CLI invocations that race in SpecRepo
NProcs == 2

(***************************************************************************)
(* Generic helpers                                                         *)
(***************************************************************************)
RECURSIVE SeqProduct(_)
\* shape.iter().product::<usize>()
SeqProduct(s) == IF s = <<>> THEN 1 ELSE Head(s) * SeqProduct(Tail(s))

RECURSIVE LexLess(_, _)
\* Ord for String: bytewise lexicographic order
LexLess(a, b) ==
    IF b = <<>> THEN FALSE
    ELSE IF a = <<>> THEN TRUE
    ELSE IF Head(a) # Head(b) THEN Head(a) < Head(b)
    ELSE LexLess(Tail(a), Tail(b))

RECURSIVE BTreeKeys(_)
\* BTreeMap::keys(): the keys in ascending order
BTreeKeys(S) ==
    IF S = {} THEN <<>>
    ELSE LET m == CHOOSE x \in S : \A y \in S \ {x} : LexLess(x, y)
         IN  <<m>> \o BTreeKeys(S \ {m})

RECURSIVE InsertByKey(_, _, _)
\* `key` is a function from the elements to their sort keys
InsertByKey(sorted, x, key) ==
    IF sorted = <<>> THEN <<x>>
    ELSE IF key[Head(sorted)] <= key[x]
         THEN <<Head(sorted)>> \o InsertByKey(Tail(sorted), x, key)
         ELSE <<x>> \o sorted

\* a sort that leaves the slice as it found it
SortByKeyUnsorted(s, key) == s

RECURSIVE SortByKey(_, _)
\* slice::sort_by_key: a stable sort
SortByKey(s, key) ==
    IF s = <<>> THEN <<>>
    ELSE InsertByKey(SortByKey(SubSeq(s, 1, Len(s) - 1), key), s[Len(s)], key)

RECURSIVE SelectIn(_, _)
\* Iterator::filter, with the predicate given as the set of elements it keeps
SelectIn(s, keep) ==
    IF s = <<>> THEN <<>>
    ELSE (IF Head(s) \in keep THEN <<Head(s)>> ELSE <<>>) \o SelectIn(Tail(s), keep)

Zeros(n) == [i \in 1..n |-> 0]

IsPrefixAt(term, s, k) ==
    /\ k + Len(term) - 1 <= Len(s)
    /\ \A i \in 1..Len(term) : s[k + i - 1] = term[i]

\* str::contains(&str)
Contains(s, term) == \E k \in 1..(Len(s) + 1) : IsPrefixAt(term, s, k)

Comma == 44
Space == 32

RECURSIVE SplitComma(_)
\* str::split(','): always yields at least one (possibly empty) term
SplitComma(s) ==
    IF \A i \in 1..Len(s) : s[i] # Comma THEN <<s>>
    ELSE LET k == CHOOSE i \in 1..Len(s) :
                     s[i] = Comma /\ \A j \in 1..(i - 1) : s[j] # Comma
         IN  <<SubSeq(s, 1, k - 1)>> \o SplitComma(SubSeq(s, k + 1, Len(s)))

RECURSIVE TrimStart(_)
TrimStart(s) == IF s # <<>> /\ Head(s) = Space THEN TrimStart(Tail(s)) ELSE s

RECURSIVE TrimEnd(_)
TrimEnd(s) ==
    IF s # <<>> /\ s[Len(s)] = Space THEN TrimEnd(SubSeq(s, 1, Len(s) - 1)) ELSE s

\* a trim that leaves the term as it is
TrimNothing(s) == s

\* str::trim()
Trim(s) == TrimEnd(TrimStart(s))

(***************************************************************************)
(* utils.rs                                                                *)
(***************************************************************************)
get_dtype_size(dtype) ==
    CASE dtype = "F32"  -> 4
      [] dtype = "F16"  -> 2
      [] dtype = "BF16" -> 2
      [] dtype = "I64"  -> 8
      [] dtype = "I32"  -> 4
      [] dtype = "I16"  -> 2
      [] dtype = "I8"   -> 1
      [] dtype = "U8"   -> 1
      [] dtype = "BOOL" -> 1
      [] OTHER          -> 1

(***************************************************************************)
(* blobs.rs, run without interleaving (SpecStore has the stepwise form)    *)
(***************************************************************************)
\* blake3 is taken to be collision free: a hash is its preimage, tagged
compute_blob_hash(data) == [blake3 |-> data]

blob_exists(store, hash) == hash \in DOMAIN store

\* write_blob_atomic(data) run to completion by one thread
write_blob_atomic(store, data) ==
    LET hash == compute_blob_hash(data)
    IN  IF blob_exists(store, hash) THEN store ELSE (hash :> data) @@ store

\* save_blob_deduplicated(data) run to completion by one thread
save_blob_deduplicated(store, data) ==
    IF ~blob_exists(store, compute_blob_hash(data))
    THEN write_blob_atomic(store, data)
    ELSE store

(***************************************************************************)
(* storage.rs: the serde forms of RawTensorMetaData, ManifestTensor and    *)
(* VektManifest                                                            *)
(***************************************************************************)
\* JSON documents: a value is a number, a string, an array of values or an
\* object, and an object is the sequence of its <<key, value>> members in
\* the order they stand in the text
JNum(n) == [ t |-> "num", v |-> n ]
JStr(s) == [ t |-> "str", v |-> s ]
JArr(a) == [ t |-> "arr", v |-> a ]
JObj(m) == [ t |-> "obj", v |-> m ]

HasField(obj, key) == \E i \in 1..Len(obj.v) : obj.v[i][1] = key
Field(obj, key) == obj.v[CHOOSE i \in 1..Len(obj.v) : obj.v[i][1] = key][2]

\* a Vec::push where the BTreeMap inserts: the entry goes to the end
BTreeInsertAtEnd(entries, name, tensor) ==
    Append(entries, [ name |-> name, tensor |-> tensor ])

RECURSIVE BTreeInsert(_, _, _)
\* BTreeMap::insert on the entries in key order: the entry goes to the
\* place of its key, and replaces an entry of the same key
BTreeInsert(entries, name, tensor) ==
    LET e == [ name |-> name, tensor |-> tensor ]
    IN  IF entries = <<>> THEN <<e>>
        ELSE IF Head(entries).name = name THEN <<e>> \o Tail(entries)
        ELSE IF LexLess(name, Head(entries).name) THEN <<e>> \o entries
        ELSE <<Head(entries)>> \o BTreeInsert(Tail(entries), name, tensor)

RECURSIVE IndexMapInsertSorted(_, _, _)
\* a BTreeMap::insert where the IndexMap inserts: the key goes to its
\* place in key order
IndexMapInsertSorted(extra, key, value) ==
    IF extra = <<>> THEN << <<key, value>> >>
    ELSE IF Head(extra)[1] = key THEN << <<key, value>> >> \o Tail(extra)
    ELSE IF LexLess(key, Head(extra)[1]) THEN << <<key, value>> >> \o extra
    ELSE <<Head(extra)>> \o IndexMapInsertSorted(Tail(extra), key, value)

\* IndexMap::insert: a new key goes to the end, a known key keeps its place
IndexMapInsert(extra, key, value) ==
    IF \E i \in 1..Len(extra) : extra[i][1] = key
    THEN [i \in 1..Len(extra) |->
            IF extra[i][1] = key THEN <<key, value>> ELSE extra[i]]
    ELSE Append(extra, <<key, value>>)

\* Serialize for IndexMap<String, Value>: the entries in insertion order
SerializeExtra(extra) ==
    JObj([i \in 1..Len(extra) |-> <<extra[i][1], JNum(extra[i][2])>>])

\* derive(Serialize) for ManifestTensor: the fields in declaration order
SerializeTensor(tensor) ==
    JObj(<< <<"shape", JArr([i \in 1..Len(tensor.shape) |-> JNum(tensor.shape[i])])>>,
            <<"dtype", JStr(tensor.dtype)>>,
            <<"hash",  JStr(tensor.hash)>>,
            <<"index", JNum(tensor.index)>>,
            <<"extra", SerializeExtra(tensor.extra)>> >>)

\* derive(Serialize) for VektManifest: the fields in declaration order, the
\* BTreeMap in the order of its entries
SerializeManifest(m) ==
    JObj(<< <<"tensors", JObj([i \in 1..Len(m.tensors) |->
                                <<m.tensors[i].name,
                                  SerializeTensor(m.tensors[i].tensor)>>])>>,
            <<"version", JStr(m.version)>>,
            <<"total_size", JNum(m.total_size)>> >>)

RECURSIVE ParseExtra(_)
\* Deserialize for IndexMap: the members are inserted in document order
ParseExtra(members) ==
    IF members = <<>> THEN <<>>
    ELSE LET last == members[Len(members)]
         IN  IndexMapInsert(ParseExtra(SubSeq(members, 1, Len(members) - 1)),
                            last[1], last[2].v)

\* derive(Deserialize) for ManifestTensor: the fields by key, `extra` by
\* default when it is absent
ParseTensor(obj) ==
    [ shape |-> [i \in 1..Len(Field(obj, "shape").v) |-> Field(obj, "shape").v[i].v],
      dtype |-> Field(obj, "dtype").v,
      hash  |-> Field(obj, "hash").v,
      index |-> Field(obj, "index").v,
      extra |-> IF HasField(obj, "extra")
                THEN ParseExtra(Field(obj, "extra").v)
                ELSE <<>> ]

RECURSIVE ParseTensors(_)
\* Deserialize for BTreeMap: the members are inserted in document order
ParseTensors(members) ==
    IF members = <<>> THEN <<>>
    ELSE LET last == members[Len(members)]
         IN  BTreeInsert(ParseTensors(SubSeq(members, 1, Len(members) - 1)),
                         last[1], ParseTensor(last[2]))

\* derive(Deserialize) for VektManifest
ParseManifest(doc) ==
    [ tensors    |-> ParseTensors(Field(doc, "tensors").v),
      version    |-> Field(doc, "version").v,
      total_size |-> Field(doc, "total_size").v ]

\* the keys "shape", "dtype" and "data_offsets"
KeyShape == <<115, 104, 97, 112, 101>>
KeyDtype == <<100, 116, 121, 112, 101>>
KeyDataOffsets == <<100, 97, 116, 97, 95, 111, 102, 102, 115, 101, 116, 115>>
RawFields == {KeyShape, KeyDtype, KeyDataOffsets}

\* derive(Serialize) for RawTensorMetaData: the fields in declaration
\* order, the members of the flattened `extra` after them
SerializeRawMeta(meta) ==
    JObj(<< <<KeyShape, JArr([i \in 1..Len(meta.shape) |-> JNum(meta.shape[i])])>>,
            <<KeyDtype, JStr(meta.dtype)>>,
            <<KeyDataOffsets, JArr(<<JNum(meta.data_offsets[1]),
                                     JNum(meta.data_offsets[2])>>)>> >>
         \o SerializeExtra(meta.extra).v)

\* the members of a header entry that are no field of RawTensorMetaData
OtherMembers(doc) == SelectSeq(doc.v, LAMBDA m : m[1] \notin RawFields)

\* derive(Deserialize) for RawTensorMetaData: the fields by key, every
\* other member into the flattened `extra` in document order
ParseRawMeta(doc) ==
    [ shape        |-> [i \in 1..Len(Field(doc, KeyShape).v) |->
                          Field(doc, KeyShape).v[i].v],
      dtype        |-> Field(doc, KeyDtype).v,
      data_offsets |-> <<Field(doc, KeyDataOffsets).v[1].v,
                         Field(doc, KeyDataOffsets).v[2].v>>,
      extra        |-> ParseExtra(OtherMembers(doc)) ]

(***************************************************************************)
(* The safetensors format (spec section 3): the inputs of SpecRestore      *)
(***************************************************************************)
\* sizeof(dtype) of the safetensors format
FormatDtypeBytes(dtype) ==
    CASE dtype = "U8"  -> 1
      [] dtype = "F16" -> 2
      [] dtype = "F64" -> 8

\* the (dtype, shape) pairs of the input tensors: 1, 4, 0, 8 and 16 bytes
TensorKinds ==
    { [dtype |-> "U8",  shape |-> <<1>>],
      [dtype |-> "F16", shape |-> <<1, 2>>],
      [dtype |-> "U8",  shape |-> <<0>>],
      [dtype |-> "F64", shape |-> <<1>>],
      [dtype |-> "F64", shape |-> <<2>>] }
\* tensor names "a", "b", "ba" as byte strings
Names == {<<97>>, <<98>>, <<98, 97>>}
Fills == {16, 32}
NoExtra == <<>>

\* the payload of a tensor: `len` bytes that differ by position and by fill
Payload(fill, len) == [i \in 1..len |-> fill + i]

TensorSpecs ==
    { [name |-> n, dtype |-> k.dtype, shape |-> k.shape, fill |-> f] :
        n \in Names, k \in TensorKinds, f \in Fills }

TensorBytes(t) == SeqProduct(t.shape) * FormatDtypeBytes(t.dtype)

RECURSIVE LayoutEnd(_, _)
\* end offset of the k-th tensor when payloads are laid out back to back
LayoutEnd(ts, k) == IF k = 0 THEN 0 ELSE LayoutEnd(ts, k - 1) + TensorBytes(ts[k])

RECURSIVE ConcatPayloads(_)
ConcatPayloads(ts) ==
    IF ts = <<>> THEN <<>>
    ELSE Payload(Head(ts).fill, TensorBytes(Head(ts))) \o ConcatPayloads(Tail(ts))

\* length of the JSON header: a stand-in that grows with the number of entries
HeaderLenOf(n) == 2 + 60 * n

\* the other keys a header entry carries: {"q": 8, "l": 3} for the F16
\* tensors filled from 32, {"l": 3, "q": 8} for the one-element U8 tensors
\* filled from 16, none for the rest
ExtraOf(t) ==
    IF t.dtype = "F16" /\ t.fill = 32 THEN << <<<<113>>, 8>>, <<<<108>>, 3>> >>
    ELSE IF t.dtype = "U8" /\ t.shape = <<1>> /\ t.fill = 16
    THEN << <<<<108>>, 3>>, <<<<113>>, 8>> >>
    ELSE NoExtra

\* the JSON object of the k-th header entry, with the other keys standing
\* among the fields
HeaderEntryDoc(ts, k) ==
    LET x == ExtraOf(ts[k])
        dtype == <<KeyDtype, JStr(ts[k].dtype)>>
        shape == <<KeyShape, JArr([i \in 1..Len(ts[k].shape) |-> JNum(ts[k].shape[i])])>>
        offs  == <<KeyDataOffsets, JArr(<<JNum(LayoutEnd(ts, k - 1)),
                                          JNum(LayoutEnd(ts, k))>>)>>
    IN  IF x = <<>> THEN JObj(<<dtype, shape, offs>>)
        ELSE JObj(<< <<x[1][1], JNum(x[1][2])>>, dtype, shape,
                     <<x[2][1], JNum(x[2][2])>>, offs >>)

\* A valid safetensors file with the tensors `ts` in header (= physical)
\* order; `header` is what serde_json::from_str makes of the header JSON
\* (lib.rs:66)
MakeFile(ts) ==
    [ header      |-> [k \in 1..Len(ts) |->
                         LET meta == ParseRawMeta(HeaderEntryDoc(ts, k))
                         IN  [ name         |-> ts[k].name,
                               dtype        |-> meta.dtype,
                               shape        |-> meta.shape,
                               data_offsets |-> meta.data_offsets,
                               extra        |-> meta.extra ]],
      header_json |-> [k \in 1..Len(ts) |-> HeaderEntryDoc(ts, k)],
      header_len  |-> HeaderLenOf(Len(ts)),
      data        |-> ConcatPayloads(ts) ]

ValidFiles ==
    { MakeFile(ts) : ts \in
        { s \in UNION { [1..n -> TensorSpecs] : n \in 1..MaxTensors } :
            \A i, j \in DOMAIN s : i # j => s[i].name # s[j].name } }

\* a file whose k-th header entry declares the data_offsets `off`
WithOffsets(f, k, off) == [f EXCEPT !.header[k].data_offsets = off]

\* the files that open like f but whose header declares, for one entry or
\* for all, a range the file does not hold: one that ends 8 bytes past the end of the
\* file, or one whose start and end are exchanged
MalformedFiles(f) ==
    { WithOffsets(f, k, <<f.header[k].data_offsets[1], Len(f.data) + 8>>) :
        k \in 1..Len(f.header) }
    \cup
    { WithOffsets(f, k, <<f.header[k].data_offsets[2], f.header[k].data_offsets[1]>>) :
        k \in { j \in 1..Len(f.header) :
                 f.header[j].data_offsets[1] < f.header[j].data_offsets[2] } }
    \cup
    \* every entry of a file of several tensors ends past the end of the file
    { [f EXCEPT !.header = [k \in 1..Len(f.header) |->
          [f.header[k] EXCEPT !.data_offsets = <<@[1], Len(f.data) + 8>>]]] :
        n \in { Len(f.header) } \ {0, 1} }

\* orders in which n parallel tasks can finish: any task may be the first,
\* the others follow in turn (the rotations of 1..n)
FinishOrders(n) ==
    { [i \in 1..n |-> ((i + r - 2) % n) + 1] : r \in 1..n }

(***************************************************************************)
(* lib.rs: SafetensorFile::open                                            *)
(***************************************************************************)
\* a usize is 64 bits wide: four limbs of 16 bits, the lowest first
LimbBase == 65536

\* the header lengths the first 8 bytes may hold: small ones, and ones
\* within 8 of 2^16, of 2^64 - 2^48 + 2^16 and of 2^64
LowLimbs == (0..5) \cup {LimbBase - 9, LimbBase - 8, LimbBase - 1}
HeaderLens ==
    { <<lo, 0, 0, 0>> : lo \in LowLimbs } \cup
    { <<lo, 0, 0, LimbBase - 1>> : lo \in LowLimbs } \cup
    { <<lo, LimbBase - 1, LimbBase - 1, LimbBase - 1>> : lo \in LowLimbs }

RECURSIVE AddLimbs(_, _)
\* h + c on limbs, with the carry out of the highest limb
AddLimbs(h, c) ==
    IF h = <<>> THEN [ sum |-> <<>>, carry |-> c ]
    ELSE LET t == Head(h) + c
             r == AddLimbs(Tail(h), t \div LimbBase)
         IN  [ sum |-> <<t % LimbBase>> \o r.sum, carry |-> r.carry ]

\* a usize compared with a length below 2^16
LimbsGreater(h, n) == h[1] > n \/ \E i \in 2..Len(h) : h[i] # 0
LimbsLess(h, n) == h[1] < n /\ \A i \in 2..Len(h) : h[i] = 0

InvalidSafetensor(msg) == [ kind |-> "InvalidSafetensor", msg |-> msg ]
OpenPanic == [ kind |-> "panic", msg |-> "" ]
OpenOk == [ kind |-> "Ok", msg |-> "" ]
NotOpened == [ kind |-> "none", msg |-> "" ]

\* lib.rs:58-64, `8 + header_len`: a panic in a build that checks
\* overflow, the sum modulo 2^64 in one that does not
HeaderEnd(h, checks) ==
    LET r == AddLimbs(h, 8)
    IN  [ panic |-> checks /\ r.carry # 0, val |-> r.sum ]

\* lib.rs:41-70
OpenResult(len, h, checks, content) ==
    IF len < 8 THEN InvalidSafetensor("File too small")
    ELSE LET end == HeaderEnd(h, checks)
         IN  IF end.panic THEN OpenPanic
             ELSE IF LimbsGreater(end.val, len)
             THEN InvalidSafetensor("Header length exceeds file size")
             \* &mmap[8..8 + header_len]
             ELSE IF LimbsLess(end.val, 8) THEN OpenPanic
             ELSE IF content = "bad_utf8"
             THEN InvalidSafetensor("Header is not valid UTF-8")
             ELSE IF content = "bad_json"
             THEN InvalidSafetensor("Invalid header JSON")
             ELSE OpenOk

Open ==
    /\ open_result = NotOpened
    /\ open_result' = OpenResult(open_len, open_header_len, open_checks, open_content)
    /\ UNCHANGED <<open_len, open_header_len, open_checks, open_content>>
    /\ OpenFrame

(***************************************************************************)
(* lib.rs: SafetensorFile::process                                         *)
(***************************************************************************)
MmapLen(f) == 8 + f.header_len + Len(f.data)

\* the whole data section in place of the tensor's range
MmapDataSection(f, s, e) == f.data

\* &self.mmap[s..e] for a range inside the data section
MmapSlice(f, s, e) == [i \in 1..(e - s) |-> f.data[s - (8 + f.header_len) + i]]

absolute_start(f, e) == f.header_len + 8 + e.data_offsets[1]
absolute_end(f, e)   == f.header_len + 8 + e.data_offsets[2]

\* the index a tensor would get if it were numbered as its task finishes
TensorIndexByFinish(k) ==
    (CHOOSE r \in 1..Len(finish_order) : finish_order[r] = k) - 1

\* lib.rs:75-80 and 107: the position enumerate() gave the header entry
TensorIndex(k) == k - 1

\* the closure of the hashing pass (lib.rs:85-112) for header entry k; the
\* slice expression of lib.rs:97 panics when its start exceeds its end
HashTask(f, k) ==
    LET e == f.header[k]
    IN  IF absolute_end(f, e) > MmapLen(f)
        THEN [ ok |-> FALSE, panic |-> FALSE, name |-> e.name ]
        ELSE IF absolute_start(f, e) > absolute_end(f, e)
        THEN [ ok |-> FALSE, panic |-> TRUE, name |-> e.name ]
        ELSE [ ok     |-> TRUE,
               panic  |-> FALSE,
               name   |-> e.name,
               tensor |-> [ shape |-> e.shape,
                            dtype |-> e.dtype,
                            hash  |-> compute_blob_hash(
                                        MmapSlice(f, absolute_start(f, e),
                                                  absolute_end(f, e))),
                            extra |-> e.extra,
                            index |-> TensorIndex(k) ],
               start  |-> absolute_start(f, e),
               end    |-> absolute_end(f, e) ]

processed_tensors(f) == [k \in 1..Len(f.header) |-> HashTask(f, k)]

\* lib.rs:119-123: `res?` returns the first error in header order
HashingFailed(f) == \E k \in 1..Len(f.header) : ~processed_tensors(f)[k].ok

\* lib.rs:116-123 and 138-142
ProcessManifest(f) ==
    LET pt == processed_tensors(f)
    IN  [ tensors    |-> [n \in {pt[k].name : k \in 1..Len(pt)} |->
                            LET k == CHOOSE j \in 1..Len(pt) :
                                        /\ pt[j].name = n
                                        /\ \A i \in 1..Len(pt) : pt[i].name = n => i <= j
                            IN  pt[k].tensor],
          version    |-> "1.0",
          total_size |-> MmapLen(f) ]

RECURSIVE SaveBlobs(_, _, _)
\* lib.rs:128-136 with the tasks run one after the other
SaveBlobs(store, f, k) ==
    IF k > Len(f.header) THEN store
    ELSE LET t == HashTask(f, k)
         IN  SaveBlobs(save_blob_deduplicated(store, MmapSlice(f, t.start, t.end)),
                       f, k + 1)

EmptyStore == [h \in {} |-> <<>>]
EmptyManifest == [ tensors |-> [n \in {} |-> 0], version |-> "1.0", total_size |-> 0 ]

\* a panic of a hashing task is resumed in the caller of collect()
HashingPanicked(f) == \E k \in 1..Len(f.header) : processed_tensors(f)[k].panic

\* the error of the failed task that finished first
FirstErrorByFinish(f) ==
    LET pt == processed_tensors(f)
        r  == CHOOSE j \in 1..Len(finish_order) :
                 /\ ~pt[finish_order[j]].ok
                 /\ \A i \in 1..(j - 1) : pt[finish_order[i]].ok
    IN  [ kind |-> "TensorCorruption", name |-> pt[finish_order[r]].name ]

\* lib.rs:119-120: the error `res?` returns, that of the first entry
FirstError(f) ==
    LET pt == processed_tensors(f)
        k  == CHOOSE j \in 1..Len(pt) : ~pt[j].ok /\ \A i \in 1..(j - 1) : pt[i].ok
    IN  [ kind |-> "TensorCorruption", name |-> pt[k].name ]

NoError == [ kind |-> "none", name |-> <<>> ]
Panic   == [ kind |-> "panic", name |-> <<>> ]

\* process(save_blobs)
Process ==
    /\ rpc = "opened"
    /\ \E sb \in BOOLEAN :
         /\ save_blobs' = sb
         /\ IF HashingPanicked(file)
            THEN /\ rpc' = "process_panicked"
                 /\ process_error' = Panic
                 /\ UNCHANGED <<manifest, blobs>>
            ELSE IF HashingFailed(file)
            THEN /\ rpc' = "process_failed"
                 /\ process_error' = FirstError(file)
                 /\ UNCHANGED <<manifest, blobs>>
            ELSE /\ rpc' = "processed"
                 /\ manifest' = ProcessManifest(file)
                 /\ blobs' = IF sb THEN SaveBlobs(blobs, file, 1) ELSE blobs
                 /\ UNCHANGED process_error
    /\ UNCHANGED <<file, finish_order, out_exists, rfilter, sorted_tensor_names, ri, header_map,
                   current_offset, written_hashes, current_write_pos,
                   out_data, copies>>
    /\ RestoreFrame

(***************************************************************************)
(* storage.rs: VektManifest::restore                                       *)
(***************************************************************************)
NoFilter == [ some |-> FALSE, str |-> <<>> ]
SomeFilter(s) == [ some |-> TRUE, str |-> s ]

\* None, " a", "b, ba", "z"
Filters ==
    { NoFilter, SomeFilter(<<32, 97>>), SomeFilter(<<98, 44, 32, 98, 97>>),
      SomeFilter(<<122>>) }

\* storage.rs:82-89
FilterKeeps(filter, name) ==
    IF filter.some
    THEN LET terms == SplitComma(filter.str)
         IN  \E i \in 1..Len(terms) : Contains(name, Trim(terms[i]))
    ELSE TRUE

\* storage.rs:79-93
SortedTensorNames(m, filter) ==
    LET kept    == {n \in DOMAIN m.tensors : FilterKeeps(filter, n)}
        indexOf == [n \in DOMAIN m.tensors |-> m.tensors[n].index]
    IN  SortByKey(SelectIn(BTreeKeys(DOMAIN m.tensors), kept), indexOf)

\* pass 1 without the shared-weights test: every tensor gets its own range
Pass1SeenNever(wh, hash) == FALSE

\* storage.rs:106, the shared-weights test of pass 1
Pass1Seen(wh, hash) == hash \in DOMAIN wh

\* storage.rs:117 and 157
Padding(pos) == (8 - (pos % 8)) % 8

\* storage.rs:120-121
Pass1Size(tensor) == SeqProduct(tensor.shape) * get_dtype_size(tensor.dtype)

\* gc.rs:35: a collection between the ingest and the restore removes the
\* blob of the last tensor of the file
LoseBlob ==
    /\ rpc = "processed"
    /\ LET last == file.header[Len(file.header)].name
           hash == manifest.tensors[last].hash
       IN  /\ Len(file.header) >= 1
           /\ blob_exists(blobs, hash)
           /\ blobs' = [h \in DOMAIN blobs \ {hash} |-> blobs[h]]
    /\ UNCHANGED <<file, finish_order, process_error, out_exists, manifest, rpc,
                   save_blobs, rfilter, sorted_tensor_names, ri, header_map,
                   current_offset, written_hashes, current_write_pos, out_data,
                   copies>>
    /\ RestoreFrame

\* the entries of a BTreeMap in key order
Entries(tensors) ==
    LET keys == BTreeKeys(DOMAIN tensors)
    IN  [i \in 1..Len(keys) |-> [ name |-> keys[i], tensor |-> tensors[keys[i]] ]]

TensorsOf(entries) ==
    [n \in {entries[i].name : i \in 1..Len(entries)} |->
        entries[CHOOSE i \in 1..Len(entries) : entries[i].name = n].tensor]

\* main.rs:254-259 and 284-287: the manifest `vekt add` wrote, as `vekt
\* restore` reads it
LoadManifest(m) ==
    LET loaded == ParseManifest(SerializeManifest(
                      [ tensors    |-> Entries(m.tensors),
                        version    |-> m.version,
                        total_size |-> m.total_size ]))
    IN  [ tensors    |-> TensorsOf(loaded.tensors),
          version    |-> loaded.version,
          total_size |-> loaded.total_size ]

\* main.rs:284-303 and storage.rs:75-99
RestoreBegin ==
    /\ rpc = "processed"
    /\ manifest' = LoadManifest(manifest)
    \* File::create(output_path)
    /\ out_exists' = TRUE
    /\ \E filter \in Filters :
         /\ rfilter' = filter
         /\ sorted_tensor_names' = SortedTensorNames(manifest', filter)
    /\ rpc' = "pass1"
    /\ ri' = 1
    /\ header_map' = <<>>
    /\ current_offset' = 0
    /\ written_hashes' = [h \in {} |-> <<0, 0>>]
    /\ out_data' = <<>>
    \* the hashing tasks of process() are long gone
    /\ finish_order' = <<>>
    /\ UNCHANGED <<file, process_error, blobs, save_blobs, current_write_pos, copies>>
    /\ RestoreFrame

\* a header entry of the three fields alone
MetaWithoutExtra(tensor, start, end) ==
    [ shape |-> tensor.shape, dtype |-> tensor.dtype,
      data_offsets |-> <<start, end>>, extra |-> <<>> ]

\* storage.rs:109-114 and 124-129
Meta(tensor, start, end) ==
    [ shape |-> tensor.shape, dtype |-> tensor.dtype,
      data_offsets |-> <<start, end>>, extra |-> tensor.extra ]

\* storage.rs:102-135, one iteration
RestorePass1Step ==
    /\ rpc = "pass1"
    /\ ri <= Len(sorted_tensor_names)
    /\ LET name   == sorted_tensor_names[ri]
           tensor == manifest.tensors[name]
       IN  IF Pass1Seen(written_hashes, tensor.hash)
           THEN LET se == written_hashes[tensor.hash]
                IN  /\ header_map' = Append(header_map,
                           [ name |-> name, meta |-> Meta(tensor, se[1], se[2]) ])
                    /\ UNCHANGED <<current_offset, written_hashes>>
           ELSE LET start == current_offset + Padding(current_offset)
                    size  == Pass1Size(tensor)
                    end   == start + size
                IN  /\ header_map' = Append(header_map,
                           [ name |-> name, meta |-> Meta(tensor, start, end) ])
                    /\ written_hashes' = (tensor.hash :> <<start, end>>) @@ written_hashes
                    /\ current_offset' = start + size
    /\ ri' = ri + 1
    /\ UNCHANGED <<file, finish_order, process_error, out_exists, manifest, blobs, rpc, save_blobs, rfilter, sorted_tensor_names,
                   current_write_pos, out_data, copies>>
    /\ RestoreFrame

\* storage.rs:137-146
RestoreWriteHeader ==
    /\ rpc = "pass1"
    /\ ri > Len(sorted_tensor_names)
    /\ rpc' = "pass2"
    /\ ri' = 1
    /\ written_hashes' = [h \in {} |-> <<0, 0>>]
    /\ current_write_pos' = 0
    /\ copies' = <<>>
    /\ UNCHANGED <<file, finish_order, process_error, out_exists, manifest, blobs, save_blobs, rfilter, sorted_tensor_names,
                   header_map, current_offset, out_data>>
    /\ RestoreFrame

\* pass 2 taking every blob for written
Pass2WrittenAlways(wh, hash) == TRUE

\* storage.rs:151, the already-written test of pass 2
Pass2Written(wh, hash) == hash \in DOMAIN wh

\* storage.rs:148-171, one iteration
RestorePass2Step ==
    /\ rpc = "pass2"
    /\ ri <= Len(sorted_tensor_names)
    /\ LET name    == sorted_tensor_names[ri]
           tensor  == manifest.tensors[name]
           padding == Padding(current_write_pos)
       IN  IF Pass2Written(written_hashes, tensor.hash)
           THEN /\ ri' = ri + 1
                /\ UNCHANGED <<rpc, written_hashes, current_write_pos, out_data, copies>>
           ELSE IF ~blob_exists(blobs, tensor.hash)
           THEN \* File::open(blob_path)? fails after the padding was written
                /\ rpc' = "restore_failed"
                /\ out_data' = out_data \o Zeros(padding)
                /\ current_write_pos' = current_write_pos + padding
                /\ UNCHANGED <<ri, written_hashes, copies>>
           ELSE LET bytes_copied == Len(blobs[tensor.hash])
                IN  /\ out_data' = out_data \o Zeros(padding) \o blobs[tensor.hash]
                    /\ current_write_pos' = current_write_pos + padding + bytes_copied
                    /\ written_hashes' = (tensor.hash :> <<0, 0>>) @@ written_hashes
                    /\ copies' = Append(copies,
                           [ name |-> name, hash |-> tensor.hash,
                             pos |-> current_write_pos + padding,
                             len |-> bytes_copied ])
                    /\ ri' = ri + 1
                    /\ UNCHANGED rpc
    /\ UNCHANGED <<file, finish_order, process_error, out_exists, manifest, blobs, save_blobs, rfilter, sorted_tensor_names,
                   header_map, current_offset>>
    /\ RestoreFrame

\* storage.rs:173-175
RestoreFinish ==
    /\ rpc = "pass2"
    /\ ri > Len(sorted_tensor_names)
    /\ rpc' = "restored"
    /\ UNCHANGED <<file, finish_order, process_error, out_exists, manifest, blobs, save_blobs, rfilter, sorted_tensor_names, ri,
                   header_map, current_offset, written_hashes,
                   current_write_pos, out_data, copies>>
    /\ RestoreFrame

(***************************************************************************)
(* SpecStore.  lib.rs:128-136 runs one save_blob_deduplicated task per     *)
(* tensor on rayon's pool; blobs.rs:27-48 and 57-66 are the steps of a     *)
(* task.  The directory maps names to inodes; File::create on an existing  *)
(* name truncates its inode, rename moves the inode to the final name.     *)
(***************************************************************************)
Tasks == 1..NTasks

\* the tensor payloads of the ingested file: two tensors may be identical
TaskPayloads == { <<7, 8>>, <<9>> }

\* get_blob_path(hash) and blob_path.with_extension("tmp")
BlobPath(hash) == [hash |-> hash, tmp |-> FALSE]
TmpPath(hash)  == [hash |-> hash, tmp |-> TRUE]

FileNames ==
    { BlobPath(compute_blob_hash(d)) : d \in TaskPayloads }
        \cup { TmpPath(compute_blob_hash(d)) : d \in TaskPayloads }

\* the inodes of the blobs directory's file system
Inodes == 1..(NTasks + Cardinality(FileNames))

\* the inode a newly created file gets: one that no name and no handle uses
FreeInode(dir, fds) ==
    CHOOSE i \in Inodes :
        /\ \A n \in FileNames : dir[n] # i
        /\ \A t \in Tasks : fds[t] # i
        /\ \A j \in 1..(i - 1) :
              (\E n \in FileNames : dir[n] = j) \/ (\E t \in Tasks : fds[t] = j)

\* Path::exists
PathExists(dir, path) == dir[path] # 0

\* write(2) of one byte at offset `off` of a file holding `content`
WriteAt(content, off, byte) ==
    IF off < Len(content)
    THEN [content EXCEPT ![off + 1] = byte]
    ELSE content \o Zeros(off - Len(content)) \o <<byte>>

TaskHash(t) == compute_blob_hash(task_data[t])

TaskFrame == UNCHANGED task_data /\ StoreFrame
RunFrame == UNCHANGED <<recovering, task_existed>> /\ TaskFrame

\* rayon hands the task to a worker; after a failure try_for_each may not
TaskStart(t) ==
    /\ proc_result = "running"
    /\ task_pc[t] = "queued"
    /\ task_pc' = [task_pc EXCEPT ![t] = "dedup_check"]
    /\ UNCHANGED <<fs_dir, fs_data, task_fd, task_off, proc_result>>
    /\ RunFrame

\* try_for_each stops handing out tasks once one has failed
TaskSkip(t) ==
    /\ proc_result = "running"
    /\ task_pc[t] = "queued"
    /\ \E u \in Tasks : task_pc[u] = "failed"
    /\ task_pc' = [task_pc EXCEPT ![t] = "skipped"]
    /\ UNCHANGED <<fs_dir, fs_data, task_fd, task_off, proc_result>>
    /\ RunFrame

\* blobs.rs:58-63: `existed = blob_exists(&hash)`
SaveBlobCheck(t) ==
    /\ proc_result = "running"
    /\ task_pc[t] = "dedup_check"
    /\ task_pc' = [task_pc EXCEPT ![t] =
          IF PathExists(fs_dir, BlobPath(TaskHash(t))) THEN "done" ELSE "exists_check"]
    /\ task_existed' = [task_existed EXCEPT ![t] = PathExists(fs_dir, BlobPath(TaskHash(t)))]
    /\ UNCHANGED <<fs_dir, fs_data, task_fd, task_off, proc_result, recovering>>
    /\ TaskFrame

\* blobs.rs:28-34: `if blob_path.exists() { return Ok(hash) }`
WriteBlobCheck(t) ==
    /\ proc_result = "running"
    /\ task_pc[t] = "exists_check"
    /\ task_pc' = [task_pc EXCEPT ![t] =
          IF PathExists(fs_dir, BlobPath(TaskHash(t))) THEN "done" ELSE "create"]
    /\ UNCHANGED <<fs_dir, fs_data, task_fd, task_off, proc_result>>
    /\ RunFrame

\* blobs.rs:41-42: File::create(&tmp_path) creates the file or truncates it
WriteBlobCreate(t) ==
    /\ proc_result = "running"
    /\ task_pc[t] = "create"
    /\ LET tmp == TmpPath(TaskHash(t))
       IN  IF PathExists(fs_dir, tmp)
           THEN /\ fs_data' = [fs_data EXCEPT ![fs_dir[tmp]] = <<>>]
                /\ task_fd' = [task_fd EXCEPT ![t] = fs_dir[tmp]]
                /\ UNCHANGED fs_dir
           ELSE LET ino == FreeInode(fs_dir, task_fd)
                IN  /\ fs_dir' = [fs_dir EXCEPT ![tmp] = ino]
                    /\ fs_data' = [fs_data EXCEPT ![ino] = <<>>]
                    /\ task_fd' = [task_fd EXCEPT ![t] = ino]
    /\ task_off' = [task_off EXCEPT ![t] = 0]
    /\ task_pc' = [task_pc EXCEPT ![t] = "write"]
    /\ UNCHANGED proc_result
    /\ RunFrame

\* blobs.rs:43: f.write_all(data), one byte of it
WriteBlobWrite(t) ==
    /\ proc_result = "running"
    /\ task_pc[t] = "write"
    /\ task_off[t] < Len(task_data[t])
    /\ fs_data' = [fs_data EXCEPT ![task_fd[t]] =
          WriteAt(@, task_off[t], task_data[t][task_off[t] + 1])]
    /\ task_off' = [task_off EXCEPT ![t] = @ + 1]
    /\ UNCHANGED <<fs_dir, task_pc, task_fd, proc_result>>
    /\ RunFrame

\* blobs.rs:43-44: write_all returns, f.sync_all()
WriteBlobSync(t) ==
    /\ proc_result = "running"
    /\ task_pc[t] = "write"
    /\ task_off[t] = Len(task_data[t])
    /\ task_pc' = [task_pc EXCEPT ![t] = "rename"]
    /\ UNCHANGED <<fs_dir, fs_data, task_fd, task_off, proc_result>>
    /\ RunFrame

\* rename(2) succeeds iff the source name has an entry
RenameSucceeds(dir, from) == PathExists(dir, from)

\* blobs.rs:45-47: fs::rename(tmp_path, blob_path)?, then `f` is dropped
WriteBlobRename(t) ==
    /\ proc_result = "running"
    /\ task_pc[t] = "rename"
    /\ LET tmp == TmpPath(TaskHash(t))
           fin == BlobPath(TaskHash(t))
       IN  IF RenameSucceeds(fs_dir, tmp)
           THEN /\ fs_dir' = [fs_dir EXCEPT ![fin] = fs_dir[tmp], ![tmp] = 0]
                /\ task_pc' = [task_pc EXCEPT ![t] = "done"]
           ELSE /\ task_pc' = [task_pc EXCEPT ![t] = "failed"]
                /\ UNCHANGED fs_dir
    /\ task_fd' = [task_fd EXCEPT ![t] = 0]
    /\ UNCHANGED <<fs_data, task_off, proc_result>>
    /\ RunFrame

\* lib.rs:135-142: try_for_each joins; `?` returns the error of a task
ProcessReturn ==
    /\ proc_result = "running"
    /\ \A t \in Tasks : task_pc[t] \in {"done", "failed", "skipped"}
    /\ proc_result' = IF \E t \in Tasks : task_pc[t] = "failed" THEN "err" ELSE "ok"
    /\ UNCHANGED <<fs_dir, fs_data, task_pc, task_fd, task_off>>
    /\ RunFrame

\* the process is killed: its threads stop, the directory stays as it is
Crash ==
    /\ proc_result = "running"
    /\ proc_result' = "crashed"
    /\ task_fd' = [t \in Tasks |-> 0]
    /\ UNCHANGED <<fs_dir, fs_data, task_pc, task_off>>
    /\ RunFrame

\* process(true) is called again on the same file and the same store, after
\* the previous call returned or its process was killed
Restart ==
    /\ proc_result \in {"ok", "err", "crashed"}
    /\ proc_result' = "running"
    /\ task_pc' = [t \in Tasks |-> "queued"]
    /\ task_fd' = [t \in Tasks |-> 0]
    /\ task_off' = [t \in Tasks |-> 0]
    /\ task_existed' = [t \in Tasks |-> FALSE]
    /\ fs_data' = [i \in Inodes |->
          IF \E n \in FileNames : fs_dir[n] = i THEN fs_data[i] ELSE <<>>]
    /\ UNCHANGED fs_dir
    /\ recovering' = (proc_result = "crashed")
    /\ TaskFrame

(***************************************************************************)
(* SpecRepo.  vekt_cli/src/main.rs: `vekt add` (245-269) and the garbage  *)
(* collection gc.rs run_gc (14-44), which `vekt gc` (main.rs:381-433)      *)
(* repeats inline, as processes that interleave on one repository.         *)
(* Hashes are opaque names here.                                           *)
(***************************************************************************)
Procs == 1..NProcs

\* the blobs the repository holds at the start: h3 is referenced by the
\* working-tree manifest, h4 by the manifest in history, h5 by nothing
InitialBlobs == {"h3", "h4", "h5"}

\* the tensors of every added model hash to h1 and h2
AddedHashes == {"h1", "h2"}

\* directories scan_manifests does not enter (gc.rs:54)
SkippedDirs == {".git", ".vekt", "target", "node_modules"}

\* where the pre-existing manifest old.vekt.json may lie
OldManifestDirs == { <<>>, <<"models">>, <<"target">> }

NoManifest == [exists |-> FALSE, dirs |-> <<>>, parses |-> FALSE, hashes |-> {}]

\* tree[0] is the pre-existing manifest, tree[p] the one add p writes,
\* tree[BrokenFile] a broken.vekt.json that is not JSON
BrokenFile == NProcs + 1
TreeFiles == 0..BrokenFile

\* a file named *.vekt.json that serde_json rejects; no hash is read from it
BrokenManifest == [exists |-> TRUE, dirs |-> <<>>, parses |-> FALSE, hashes |-> {}]

\* the path of a history object, split at whitespace as rev-list prints it
Word(text, suffix) == [text |-> text, suffix |-> suffix]
HistoryPaths ==
    { <<Word("old", ".vekt.json")>>,
      <<Word("my", ""), Word("old", ".vekt.json")>>,
      <<Word("notes", ".txt")>> }

\* broken.vekt.json as a blob of the history
BrokenObject ==
    [sha |-> "badc0de", path |-> <<Word("broken", ".vekt.json")>>,
     parses |-> FALSE, hashes |-> {}]

\* str::ends_with(".vekt.json")
EndsWithVektJson(word) == word.suffix = ".vekt.json"

\* gc.rs:47-70: the directory walk reaches a file iff no directory on its
\* path is one of the skipped names
WalkReaches(dirs) == \A i \in 1..Len(dirs) : dirs[i] \notin SkippedDirs

\* gc.rs:46-72 scan_manifests: the hashes of the manifests that parse
ScanManifests(t) ==
    UNION { t[k].hashes : k \in { j \in DOMAIN t :
                t[j].exists /\ WalkReaches(t[j].dirs) /\ t[j].parses } }

\* gc.rs:99-108: the lines of rev-list taken to name a manifest
\* ("<sha> <path>": exactly two whitespace-separated parts)
ManifestObjects(objects) ==
    { o \in objects :
        LET parts == <<Word(o.sha, "")>> \o o.path
        IN  Len(parts) = 2 /\ EndsWithVektJson(parts[2]) }

\* gc.rs:74-178 scan_git_history
ScanGitHistory(hasGit, objects) ==
    IF ~hasGit THEN {}
    ELSE UNION { o.hashes : o \in { m \in ManifestObjects(objects) : m.parses } }

Ended == {"done", "failed", "lock_refused", "interrupted"}
Running(p) == ppc[p] \notin ({"start"} \cup Ended)

\* every step of invocation p disturbs the garbage collections in progress
Step(p, to) ==
    /\ ppc' = [ppc EXCEPT ![p] = to]
    /\ gc_alone' = [q \in Procs |->
          IF q # p /\ cmd[q] = "gc" /\ Running(q) THEN FALSE ELSE gc_alone[q]]

\* Drop for LockFile without the unlink
DropLockFileLeaks(p) ==
    /\ lock_held' = [lock_held EXCEPT ![p] = FALSE]
    /\ UNCHANGED lock_file

\* utils.rs:89-93 Drop for LockFile: fs::remove_file(&self.path)
DropLockFile(p) ==
    /\ lock_held' = [lock_held EXCEPT ![p] = FALSE]
    /\ lock_file' = FALSE

\* OpenOptions::create(true): opens the lock file whether or not it exists
CreateAlways(exists) == TRUE

\* utils.rs:79-83 OpenOptions::create_new(true): fails if the file exists
CreateNew(exists) == ~exists

\* a refused lock() that built a LockFile all the same: its drop unlinks the
\* file of the holder
LockRefusedUnlinks(p) ==
    /\ lock_file' = FALSE
    /\ UNCHANGED lock_held

\* utils.rs:79-83 `.map_err(..)?`: lock() returns Err before `LockFile { path }`
\* is built, so there is nothing to drop
LockRefused(p) ==
    /\ UNCHANGED lock_file
    /\ UNCHANGED lock_held

\* main.rs:246 `let _lock = LockFile::lock()?;` (utils.rs:69-86)
AddLock(p) ==
    /\ cmd[p] = "add"
    /\ ppc[p] = "start"
    /\ IF CreateNew(lock_file)
       THEN /\ lock_file' = TRUE
            /\ lock_held' = [lock_held EXCEPT ![p] = TRUE]
            /\ Step(p, "open")
       ELSE /\ Step(p, "lock_refused")
            /\ LockRefused(p)
    /\ UNCHANGED <<cmd, repo_blobs, tree, git_dir, git_objects, add_input,
                   add_todo, gc_refs, gc_list, gc_seen, gc_stats, gc_start_blobs, gc_error>>
    /\ RepoFrame

\* `?` on an error: main returns and `_lock` is dropped
AddFail(p) ==
    /\ Step(p, "failed")
    /\ DropLockFile(p)

\* main.rs:252 SafetensorFile::open(path_str)?
AddOpen(p) ==
    /\ cmd[p] = "add"
    /\ ppc[p] = "open"
    /\ IF add_input[p] = "bad_header"
       THEN AddFail(p)
       ELSE Step(p, "hash") /\ UNCHANGED <<lock_file, lock_held>>
    /\ UNCHANGED <<cmd, repo_blobs, tree, git_dir, git_objects, add_input,
                   add_todo, gc_refs, gc_list, gc_seen, gc_stats, gc_start_blobs, gc_error>>
    /\ RepoFrame

\* main.rs:253 file.process(true)?, the hashing pass (lib.rs:83-123)
AddHash(p) ==
    /\ cmd[p] = "add"
    /\ ppc[p] = "hash"
    /\ IF add_input[p] = "corrupt_tensor"
       THEN AddFail(p) /\ UNCHANGED add_todo
       ELSE /\ Step(p, "blobs")
            /\ add_todo' = [add_todo EXCEPT ![p] = AddedHashes]
            /\ UNCHANGED <<lock_file, lock_held>>
    /\ UNCHANGED <<cmd, repo_blobs, tree, git_dir, git_objects, add_input,
                   gc_refs, gc_list, gc_seen, gc_stats, gc_start_blobs, gc_error>>
    /\ RepoFrame

\* the blob-write pass (lib.rs:128-136), one blob; an I/O error ends add
AddWriteBlob(p) ==
    /\ cmd[p] = "add"
    /\ ppc[p] = "blobs"
    /\ add_todo[p] # {}
    /\ \E h \in add_todo[p], io_ok \in BOOLEAN :
         IF io_ok
         THEN /\ repo_blobs' = repo_blobs \cup {h}
              /\ add_todo' = [add_todo EXCEPT ![p] = @ \ {h}]
              /\ Step(p, "blobs")
              /\ UNCHANGED <<lock_file, lock_held>>
         ELSE /\ AddFail(p)
              /\ UNCHANGED <<repo_blobs, add_todo>>
    /\ UNCHANGED <<cmd, tree, git_dir, git_objects, add_input,
                   gc_refs, gc_list, gc_seen, gc_stats, gc_start_blobs, gc_error>>
    /\ RepoFrame

\* main.rs:254 serde_json::to_string_pretty(&manifest)?
AddSerialize(p) ==
    /\ cmd[p] = "add"
    /\ ppc[p] = "blobs"
    /\ add_todo[p] = {}
    /\ \E ok \in BOOLEAN :
         IF ok THEN Step(p, "create") /\ UNCHANGED <<lock_file, lock_held>>
         ELSE AddFail(p)
    /\ UNCHANGED <<cmd, repo_blobs, tree, git_dir, git_objects, add_input,
                   add_todo, gc_refs, gc_list, gc_seen, gc_stats, gc_start_blobs, gc_error>>
    /\ RepoFrame

\* main.rs:256-257 File::create(&output_path)?: the manifest exists, empty
AddCreateManifest(p) ==
    /\ cmd[p] = "add"
    /\ ppc[p] = "create"
    /\ \E io_ok \in BOOLEAN :
         IF io_ok
         THEN /\ tree' = [tree EXCEPT ![p] =
                    [exists |-> TRUE, dirs |-> <<>>, parses |-> FALSE, hashes |-> {}]]
              /\ Step(p, "write")
              /\ UNCHANGED <<lock_file, lock_held>>
         ELSE AddFail(p) /\ UNCHANGED tree
    /\ UNCHANGED <<cmd, repo_blobs, git_dir, git_objects, add_input,
                   add_todo, gc_refs, gc_list, gc_seen, gc_stats, gc_start_blobs, gc_error>>
    /\ RepoFrame

\* main.rs:259 output_file.write_all(manifest_json.as_bytes())?
AddWriteManifest(p) ==
    /\ cmd[p] = "add"
    /\ ppc[p] = "write"
    /\ \E io_ok \in BOOLEAN :
         IF io_ok
         THEN /\ tree' = [tree EXCEPT ![p] =
                    [exists |-> TRUE, dirs |-> <<>>, parses |-> TRUE,
                     hashes |-> AddedHashes]]
              /\ Step(p, "written")
              /\ UNCHANGED <<lock_file, lock_held>>
         ELSE AddFail(p) /\ UNCHANGED tree
    /\ UNCHANGED <<cmd, repo_blobs, git_dir, git_objects, add_input,
                   add_todo, gc_refs, gc_list, gc_seen, gc_stats, gc_start_blobs, gc_error>>
    /\ RepoFrame

\* main.rs:261-269: the arm ends, `_lock` goes out of scope, main returns Ok
AddFinish(p) ==
    /\ cmd[p] = "add"
    /\ ppc[p] = "written"
    /\ Step(p, "done")
    /\ DropLockFile(p)
    /\ UNCHANGED <<cmd, repo_blobs, tree, git_dir, git_objects, add_input,
                   add_todo, gc_refs, gc_list, gc_seen, gc_stats, gc_start_blobs, gc_error>>
    /\ RepoFrame

\* SIGINT while add holds the lock.  main.rs installs no signal handler, so
\* the default disposition ends the process at once: no unwinding, Drop for
\* LockFile (utils.rs:89-93) does not run, and .vekt/lock, an ordinary file
\* made by create_new (utils.rs:79-83), stays on disk
Interrupt(p) ==
    /\ cmd[p] = "add"
    /\ Running(p)
    /\ lock_held[p]
    /\ Step(p, "interrupted")
    /\ lock_held' = [lock_held EXCEPT ![p] = FALSE]
    /\ UNCHANGED lock_file
    /\ UNCHANGED <<cmd, repo_blobs, tree, git_dir, git_objects, add_input,
                   add_todo, gc_refs, gc_list, gc_seen, gc_stats, gc_start_blobs, gc_error>>
    /\ RepoFrame

\* gc.rs:15-23: the store exists; scan_manifests(root_path, ..)?
\* A scan's error carried on past the `?`: the collection goes on to its next
\* phase with the references it has.
ScanIgnored(p) ==
    /\ ppc' = [ppc EXCEPT ![p] = IF ppc[p] = "start" THEN "history" ELSE "read_dir"]
    /\ gc_error' = [gc_error EXCEPT ![p] = TRUE]

\* `scan_manifests(..)?` and `scan_git_history(..)?` in run_gc: the scan's error
\* is the result of run_gc.
ScanFailed(p) ==
    /\ ppc' = [ppc EXCEPT ![p] = "failed"]
    /\ gc_error' = [gc_error EXCEPT ![p] = TRUE]

GcScanTree(p) ==
    /\ cmd[p] = "gc"
    /\ ppc[p] = "start"
    /\ gc_start_blobs' = [gc_start_blobs EXCEPT ![p] = repo_blobs]
    /\ \E io_ok \in BOOLEAN :
         IF io_ok
         THEN /\ gc_refs' = [gc_refs EXCEPT ![p] = ScanManifests(tree)]
              /\ ppc' = [ppc EXCEPT ![p] = "history"]
              /\ UNCHANGED gc_error
         ELSE /\ ScanFailed(p)
              /\ UNCHANGED gc_refs
    /\ gc_alone' = [q \in Procs |->
          IF q = p THEN \A r \in Procs \ {p} : ~Running(r)
          ELSE IF cmd[q] = "gc" /\ Running(q) THEN FALSE ELSE gc_alone[q]]
    /\ UNCHANGED <<cmd, lock_file, lock_held, repo_blobs, tree, git_dir,
                   git_objects, add_input, add_todo, gc_list, gc_seen, gc_stats>>
    /\ RepoFrame

\* how the git child processes of scan_git_history may end: "io_error" is
\* Command::output() or spawn() returning Err, git could not be started
\* (gc.rs:82-89, 115-123); "exit_nonzero" is rev-list exiting with a failure
GitOutcomes == {"ok", "io_error", "exit_nonzero"}

\* gc.rs:26 scan_git_history(root_path, ..)?: without .git nothing is run; an
\* I/O error of a child is returned; a failing rev-list is taken for an
\* empty history (gc.rs:91-93)
GcScanHistory(p) ==
    /\ cmd[p] = "gc"
    /\ ppc[p] = "history"
    /\ \E git \in GitOutcomes :
         IF ~git_dir \/ git = "exit_nonzero"
         THEN /\ Step(p, "read_dir")
              /\ UNCHANGED <<gc_refs, gc_error>>
         ELSE IF git = "ok"
         THEN /\ gc_refs' = [gc_refs EXCEPT ![p] =
                    @ \cup ScanGitHistory(git_dir, git_objects)]
              /\ Step(p, "read_dir")
              /\ UNCHANGED gc_error
         ELSE /\ ScanFailed(p)
              /\ gc_alone' = [q \in Procs |->
                    IF q # p /\ cmd[q] = "gc" /\ Running(q) THEN FALSE ELSE gc_alone[q]]
              /\ UNCHANGED gc_refs
    /\ UNCHANGED <<cmd, lock_file, lock_held, repo_blobs, tree, git_dir,
                   git_objects, add_input, add_todo, gc_list, gc_seen, gc_stats,
                   gc_start_blobs>>
    /\ RepoFrame

\* gc.rs:28-30 std::fs::read_dir(&store_path)?
GcReadDir(p) ==
    /\ cmd[p] = "gc"
    /\ ppc[p] = "read_dir"
    /\ gc_list' = [gc_list EXCEPT ![p] = repo_blobs]
    /\ gc_seen' = [gc_seen EXCEPT ![p] = {}]
    /\ gc_stats' = [gc_stats EXCEPT ![p] = [deleted |-> 0, kept |-> 0]]
    /\ Step(p, "sweep")
    /\ UNCHANGED <<cmd, lock_file, lock_held, repo_blobs, tree, git_dir,
                   git_objects, add_input, add_todo, gc_refs, gc_start_blobs, gc_error>>
    /\ RepoFrame

\* a sweep that takes every entry for unreferenced
UnreferencedAlways(refs, hash) == TRUE

\* gc.rs:34 `!referenced_hashes.contains(hash)`
Unreferenced(refs, hash) == hash \notin refs

\* gc.rs:30-41, one entry of the directory
GcSweepEntry(p) ==
    /\ cmd[p] = "gc"
    /\ ppc[p] = "sweep"
    /\ \E e \in gc_list[p] :
         /\ gc_list' = [gc_list EXCEPT ![p] = @ \ {e}]
         /\ gc_seen' = [gc_seen EXCEPT ![p] = @ \cup {e}]
         /\ IF Unreferenced(gc_refs[p], e)
            THEN IF e \in repo_blobs
                 THEN /\ repo_blobs' = repo_blobs \ {e}
                      /\ gc_stats' = [gc_stats EXCEPT ![p].deleted = @ + 1]
                      /\ Step(p, "sweep")
                 ELSE \* remove_file(&path)? fails: the entry is gone
                      /\ Step(p, "failed")
                      /\ UNCHANGED <<repo_blobs, gc_stats>>
            ELSE /\ gc_stats' = [gc_stats EXCEPT ![p].kept = @ + 1]
                 /\ Step(p, "sweep")
                 /\ UNCHANGED repo_blobs
    /\ UNCHANGED <<cmd, lock_file, lock_held, tree, git_dir, git_objects,
                   add_input, add_todo, gc_refs, gc_start_blobs, gc_error>>
    /\ RepoFrame

\* read_dir may also yield an entry created after the directory was opened
GcSeeNewEntry(p) ==
    /\ cmd[p] = "gc"
    /\ ppc[p] = "sweep"
    /\ \E e \in repo_blobs \ (gc_list[p] \cup gc_seen[p]) :
         gc_list' = [gc_list EXCEPT ![p] = @ \cup {e}]
    /\ UNCHANGED gc_seen
    /\ Step(p, "sweep")
    /\ UNCHANGED <<cmd, lock_file, lock_held, repo_blobs, tree, git_dir,
                   git_objects, add_input, add_todo, gc_refs, gc_stats,
                   gc_start_blobs, gc_error>>
    /\ RepoFrame

\* gc.rs:43 Ok(stats)
GcReturn(p) ==
    /\ cmd[p] = "gc"
    /\ ppc[p] = "sweep"
    /\ gc_list[p] = {}
    /\ Step(p, "done")
    /\ UNCHANGED <<cmd, lock_file, lock_held, repo_blobs, tree, git_dir,
                   git_objects, add_input, add_todo, gc_refs, gc_list, gc_seen,
                   gc_stats, gc_start_blobs, gc_error>>
    /\ RepoFrame

(***************************************************************************)
(* storage.rs: VektManifest and ManifestTensor under serde_json            *)
(***************************************************************************)
Builders == 1..2

\* the tensors a manifest may hold; the extra maps are none,
\* {"q": 8, "l": 3} and {"l": 3, "q": 8}, with the keys as byte strings
ManifestTensors ==
    { [ shape |-> <<1, 2>>, dtype |-> "F16", hash |-> "h1", index |-> 0,
        extra |-> << <<<<113>>, 8>>, <<<<108>>, 3>> >> ],
      [ shape |-> <<1>>, dtype |-> "U8", hash |-> "h2", index |-> 1,
        extra |-> <<>> ],
      [ shape |-> <<1>>, dtype |-> "U8", hash |-> "h2", index |-> 0,
        extra |-> << <<<<108>>, 3>>, <<<<113>>, 8>> >> ],
      [ shape |-> <<>>, dtype |-> "F64", hash |-> "h3", index |-> 2,
        extra |-> <<>> ] }

\* the tensors of a manifest: between one and MaxTensors names, each with
\* a ManifestTensor
Targets ==
    UNION { [ns -> ManifestTensors] :
              ns \in { S \in SUBSET Names : S # {} /\ Cardinality(S) <= MaxTensors } }

NoTensors == <<>>
NoDocument == JObj(<<>>)
NoManifestParsed == [ tensors |-> NoTensors, version |-> "", total_size |-> 0 ]

\* the manifest builder x holds
ManifestOf(x) ==
    [ tensors |-> mf_tensors[x], version |-> "1.0", total_size |-> Len(mf_hist[x]) ]

\* lib.rs:121, results.insert(name, tensor)
ManifestInsert(x) ==
    /\ mf_pc[x] = "build"
    /\ \E n \in DOMAIN mf_target :
         /\ \A i \in 1..Len(mf_hist[x]) : mf_hist[x][i] # n
         /\ mf_tensors' = [mf_tensors EXCEPT ![x] = BTreeInsert(@, n, mf_target[n])]
         /\ mf_hist' = [mf_hist EXCEPT ![x] = Append(@, n)]
    /\ UNCHANGED <<mf_target, mf_pc, mf_json, mf_parsed, mf_rejson>>
    /\ ManifestFrame

\* serde_json::to_string_pretty(&manifest)
ManifestSerialize(x) ==
    /\ mf_pc[x] = "build"
    /\ Len(mf_hist[x]) = Cardinality(DOMAIN mf_target)
    /\ mf_json' = [mf_json EXCEPT ![x] = SerializeManifest(ManifestOf(x))]
    /\ mf_pc' = [mf_pc EXCEPT ![x] = "serialized"]
    /\ UNCHANGED <<mf_target, mf_tensors, mf_hist, mf_parsed, mf_rejson>>
    /\ ManifestFrame

\* serde_json::from_slice::<VektManifest>(bytes)
ManifestParse(x) ==
    /\ mf_pc[x] = "serialized"
    /\ mf_parsed' = [mf_parsed EXCEPT ![x] = ParseManifest(mf_json[x])]
    /\ mf_pc' = [mf_pc EXCEPT ![x] = "parsed"]
    /\ UNCHANGED <<mf_target, mf_tensors, mf_hist, mf_json, mf_rejson>>
    /\ ManifestFrame

\* serde_json::to_string_pretty(&manifest) of the parsed manifest
ManifestReserialize(x) ==
    /\ mf_pc[x] = "parsed"
    /\ mf_rejson' = [mf_rejson EXCEPT ![x] = SerializeManifest(mf_parsed[x])]
    /\ mf_pc' = [mf_pc EXCEPT ![x] = "reserialized"]
    /\ UNCHANGED <<mf_target, mf_tensors, mf_hist, mf_json, mf_parsed>>
    /\ ManifestFrame

(***************************************************************************)
(* SpecDiff.  diff.rs VektManifest::diff (31-77) and                       *)
(* calculate_storage_savings (138-170).  A manifest is its map from tensor *)
(* names to hashes and its total_size; the four Vecs of TensorDiff are     *)
(* filled by iterating HashSets, so they are kept as sets.  usize and i64  *)
(* have SizeBits bits.                                                     *)
(***************************************************************************)
SizeBits == 3
UsizeRange == 0..(2^SizeBits - 1)
I64Min == 0 - 2^(SizeBits - 1)
I64Max == 2^(SizeBits - 1) - 1

TensorNames == {"t1", "t2"}
TensorHashes == {"hash1", "hash2"}
Absent == "absent"

DiffManifests ==
    [tensors : [TensorNames -> TensorHashes \cup {Absent}], total_size : UsizeRange]

EmptyDiffManifest == [tensors |-> [k \in TensorNames |-> Absent], total_size |-> 0]
NoComparison == [none |-> TRUE]

\* self.tensors.keys()
keys(m) == { k \in TensorNames : m.tensors[k] # Absent }

\* `x as i64` for a usize x: the same bits, read as two's complement
as_i64(x) == IF x > I64Max THEN x - 2^SizeBits ELSE x

\* the i64 that has the bits of the integer r
wrapping(r) == as_i64(r % 2^SizeBits)

\* diff.rs:138-170
calculate_storage_savings(old, new) ==
    LET old_hashes == { old.tensors[k] : k \in keys(old) }
        new_hashes == { new.tensors[k] : k \in keys(new) }
        total_unique_blobs == Cardinality(old_hashes \cup new_hashes)
        total_tensor_count == Cardinality(keys(old)) + Cardinality(keys(new))
    IN  [ total_tensors_old |-> Cardinality(keys(old)),
          total_tensors_new |-> Cardinality(keys(new)),
          shared_blobs |-> Cardinality(old_hashes \cap new_hashes),
          unique_blobs_old |-> Cardinality(old_hashes),
          unique_blobs_new |-> Cardinality(new_hashes),
          deduplication_ratio |->
              IF total_unique_blobs > 0
              THEN <<total_tensor_count, total_unique_blobs>>
              ELSE <<1, 1>> ]

\* diff.rs:39-60: the four loops over the key sets
tensor_diff(self, other) ==
    LET self_keys == keys(self)
        other_keys == keys(other)
    IN  [ added |-> other_keys \ self_keys,
          removed |-> self_keys \ other_keys,
          modified |-> { k \in self_keys \cap other_keys :
                           self.tensors[k] # other.tensors[k] },
          unchanged |-> { k \in self_keys \cap other_keys :
                           ~(self.tensors[k] # other.tensors[k]) } ]

\* diff.rs:31-77.  Line 65 subtracts in i64: out of range it panics in a build
\* with overflow checks and wraps in one without.
Diff ==
    /\ diff_pc = "ready"
    /\ LET r == as_i64(diff_new.total_size) - as_i64(diff_old.total_size)
           result(size_change) ==
               [ tensor_diff |-> tensor_diff(diff_old, diff_new),
                 size_change |-> size_change,
                 storage_savings |-> calculate_storage_savings(diff_old, diff_new) ]
       IN  IF r >= I64Min /\ r <= I64Max
           THEN /\ diff_pc' = "done"
                /\ comparison' = result(r)
           ELSE \E overflow_checks \in BOOLEAN :
                  IF overflow_checks
                  THEN /\ diff_pc' = "panicked"
                       /\ comparison' = NoComparison
                  ELSE /\ diff_pc' = "done"
                       /\ comparison' = result(wrapping(r))
    /\ UNCHANGED <<diff_old, diff_new>>
    /\ DiffFrame

(***************************************************************************)
(* SpecDiscover.  utils.rs find_vekt_root (20-32), get_store_path (37-47),  *)
(* ensure_vekt_dir (6-16); storage.rs VektConfig::load and save (180-198); *)
(* main.rs Commands::Remote (443-467).  The directories are "/" and the    *)
(* chain of directories below it down to the deepest one, named by depth.  *)
(***************************************************************************)
MaxDepth == 3

Levels == 0..MaxDepth

\* what may stand at <dir>/.vekt
VektKinds == {"none", "dir", "file"}

None == [ some |-> FALSE, dir |-> 0 ]
Some(d) == [ some |-> TRUE, dir |-> d ]

RemoteNames == {"origin", "backup"}
NoConfig == [ exists |-> FALSE, remotes |-> {} ]
Config(remotes) == [ exists |-> TRUE, remotes |-> remotes ]

\* a discovery that takes the root from VEKT_ROOT when it is set
find_vekt_root_env(vekt, dir) ==
    IF env_vekt_root.some THEN env_vekt_root ELSE None

RECURSIVE find_vekt_root(_, _)
\* utils.rs:20-32, from current_dir() = dir: the loop of join, is_dir, pop
find_vekt_root(vekt, dir) ==
    IF vekt[dir] = "dir" THEN Some(dir)
    ELSE IF dir = 0 THEN None
    ELSE find_vekt_root(vekt, dir - 1)

\* utils.rs:6-16: creates the directory (and its .gitignore) unless
\* something stands at the path
ensure_vekt_dir(vekt, dir) ==
    IF vekt[dir] = "none" THEN [vekt EXCEPT ![dir] = "dir"] ELSE vekt

\* utils.rs:37-47: the directory whose .vekt/blobs is the store
get_store_path(vekt, dir) ==
    LET root == find_vekt_root(vekt, dir)
    IN  IF root.some THEN root.dir ELSE dir

StoreAt(d) == [ kind |-> "store", dir |-> d ]
Found(root) == [ kind |-> "root", dir |-> root ]
CmdOk == [ kind |-> "Ok", dir |-> None ]
CmdErr(e) == [ kind |-> e, dir |-> None ]
NotRun == [ kind |-> "none", dir |-> None ]

\* find_vekt_root() called from cwd
FindRoot ==
    /\ disc_cmd = "none"
    /\ disc_cmd' = "find_root"
    /\ disc_result' = Found(find_vekt_root(dot_vekt, cwd))
    /\ UNCHANGED <<cwd, dot_vekt, config_json, env_vekt_root>>
    /\ DiscFrame

\* get_store_path() called from cwd
GetStorePath ==
    /\ disc_cmd = "none"
    /\ disc_cmd' = "store_path"
    /\ LET d == get_store_path(dot_vekt, cwd)
       IN  /\ dot_vekt' = ensure_vekt_dir(dot_vekt, d)
           /\ disc_result' = StoreAt(d)
    /\ UNCHANGED <<cwd, config_json, env_vekt_root>>
    /\ DiscFrame

\* storage.rs:180-190 VektConfig::load: the remotes of the root's config
LoadConfig(vekt, configs, dir) ==
    LET root == find_vekt_root(vekt, dir)
    IN  IF configs[root.dir].exists THEN configs[root.dir].remotes ELSE {}

\* storage.rs:192-198 VektConfig::save: current_dir().join(".vekt"),
\* ensure_vekt_dir, File::create(dir.join("config.json"))
Save(remotes) ==
    IF dot_vekt[cwd] = "file"
    THEN /\ disc_result' = CmdErr("Io")
         /\ UNCHANGED <<dot_vekt, config_json>>
    ELSE /\ dot_vekt' = ensure_vekt_dir(dot_vekt, cwd)
         /\ config_json' = [config_json EXCEPT ![cwd] = Config(remotes)]
         /\ disc_result' = CmdOk

\* main.rs:443-451 `vekt remote add <name> <url>`
RemoteAdd ==
    /\ disc_cmd = "none"
    /\ disc_cmd' = "remote_add"
    /\ IF ~find_vekt_root(dot_vekt, cwd).some
       THEN /\ disc_result' = CmdErr("RepoNotFound")
            /\ UNCHANGED <<dot_vekt, config_json>>
       ELSE \E name \in RemoteNames :
              Save(LoadConfig(dot_vekt, config_json, cwd) \cup {name})
    /\ UNCHANGED <<cwd, env_vekt_root>>
    /\ DiscFrame

\* main.rs:443-444, 458-465 `vekt remote remove <name>`
RemoteRemove ==
    /\ disc_cmd = "none"
    /\ disc_cmd' = "remote_remove"
    /\ IF ~find_vekt_root(dot_vekt, cwd).some
       THEN /\ disc_result' = CmdErr("RepoNotFound")
            /\ UNCHANGED <<dot_vekt, config_json>>
       ELSE \E name \in RemoteNames :
              LET remotes == LoadConfig(dot_vekt, config_json, cwd)
              IN  IF name \in remotes
                  THEN Save(remotes \ {name})
                  ELSE /\ disc_result' = CmdOk
                       /\ UNCHANGED <<dot_vekt, config_json>>
    /\ UNCHANGED <<cwd, env_vekt_root>>
    /\ DiscFrame

(***************************************************************************)
(* SpecCli.  vekt_cli/src/main.rs main (203-470): each subcommand as the   *)
(* sequence of its fallible operations, with what main does when the       *)
(* operation fails: "propagate" (`?`: main returns Err), "panic"           *)
(* (expect), "print" (the error is printed and the run goes on),           *)
(* "print_end" (the remote is not configured: a message is printed and the *)
(* arm ends, which is not counted as a failed operation).  push and pull   *)
(* find two manifests in the directory.                                    *)
(***************************************************************************)
On(point, on_error) == [ point |-> point, on_error |-> on_error ]

\* main.rs:208-212, before every subcommand but init
RepoCheck == On("find_vekt_root", "exit_1")

CliCommands == {"add", "diff", "restore", "pull", "push", "gc"}

CliSteps(c) ==
    <<RepoCheck>> \o
    CASE c = "add" ->       \* main.rs:245-269
           << On("lock", "propagate"), On("open", "propagate"),
              On("process", "propagate"), On("to_string_pretty", "propagate"),
              On("create", "propagate"), On("write_all", "propagate") >>
      [] c = "diff" ->      \* main.rs:271-281
           << On("open_old", "propagate"), On("open_new", "propagate"),
              On("parse_old", "propagate"), On("parse_new", "propagate") >>
      [] c = "restore" ->   \* main.rs:283-307
           << On("open_manifest", "panic"), On("parse_manifest", "panic"),
              On("restore", "print") >>
      [] c = "pull" ->      \* main.rs:309-338
           << On("load_config", "propagate"), On("remote_lookup", "print_end"),
              On("client_new", "propagate"), On("read_dir", "propagate"),
              On("pull_1", "print"), On("write_1", "propagate"),
              On("pull_2", "print"), On("write_2", "propagate") >>
      [] c = "push" ->      \* main.rs:340-371
           << On("load_config", "propagate"), On("remote_lookup", "print_end"),
              On("client_new", "propagate"), On("read_dir", "propagate"),
              On("parse_1", "propagate"), On("push_1", "print"),
              On("parse_2", "propagate"), On("push_2", "print") >>
      [] c = "gc" ->        \* main.rs:381-441
           << On("scan_manifests", "propagate"), On("scan_git_history", "propagate"),
              On("read_dir", "propagate"), On("remove_file", "print") >>

CliPoints(c) == { CliSteps(c)[i].point : i \in 1..Len(CliSteps(c)) }

\* the exit code of a process whose main returned Err, or called exit(1)
ExitFailure == 1
\* the exit code of a process that panicked
ExitPanic == 101
ExitSuccess == 0

\* a pull whose manifest was not fetched does not rewrite the file
Skipped(c, step, failed) ==
    \/ c = "pull" /\ step.point = "write_1" /\ "pull_1" \in failed
    \/ c = "pull" /\ step.point = "write_2" /\ "pull_2" \in failed

\* one operation of the subcommand
CliStep ==
    /\ ~cli_done
    /\ cli_pc <= Len(CliSteps(cli_cmd))
    /\ LET step == CliSteps(cli_cmd)[cli_pc]
       IN  IF step.point \notin cli_faults \/ Skipped(cli_cmd, step, cli_failed)
           THEN /\ cli_pc' = cli_pc + 1
                /\ UNCHANGED <<cli_failed, cli_done, cli_exit>>
           ELSE /\ cli_failed' = IF step.on_error = "print_end" THEN cli_failed
                                 ELSE cli_failed \cup {step.point}
                /\ CASE step.on_error \in {"propagate", "exit_1"} ->
                          /\ cli_done' = TRUE
                          /\ cli_exit' = ExitFailure
                          /\ UNCHANGED cli_pc
                     [] step.on_error = "panic" ->
                          /\ cli_done' = TRUE
                          /\ cli_exit' = ExitPanic
                          /\ UNCHANGED cli_pc
                     [] step.on_error = "print" ->
                          /\ cli_pc' = cli_pc + 1
                          /\ UNCHANGED <<cli_done, cli_exit>>
                     [] step.on_error = "print_end" ->
                          /\ cli_pc' = Len(CliSteps(cli_cmd)) + 1
                          /\ UNCHANGED <<cli_done, cli_exit>>
    /\ UNCHANGED <<cli_cmd, cli_faults>>
    /\ CliFrame

\* main.rs:469 Ok(()): the process exits with 0
CliReturn ==
    /\ ~cli_done
    /\ cli_pc = Len(CliSteps(cli_cmd)) + 1
    /\ cli_done' = TRUE
    /\ cli_exit' = ExitSuccess
    /\ UNCHANGED <<cli_cmd, cli_faults, cli_pc, cli_failed>>
    /\ CliFrame

(***************************************************************************)
(* SpecPipe.  gc.rs scan_git_history (110-177; the same code stands at     *)
(* main.rs:131-198): the collector and its child `git cat-file --batch`,   *)
(* joined by two pipes of bounded capacity.  A write to a full pipe and a  *)
(* read from an empty one block.  The unit of the stdin pipe is one SHA    *)
(* line, the unit of the stdout pipe one output frame.                     *)
(***************************************************************************)
\* the manifest objects rev-list may list
MaxObjects == 8
\* the SHA lines the stdin pipe holds, the frames the stdout pipe holds
StdinCapacity == 2
StdoutCapacity == 1

\* gc.rs:110-112: nothing to read, no child is started;
\* gc.rs:115-123: otherwise cat-file is spawned with both ends piped
ScanSpawn ==
    /\ scan_pc = "spawn"
    /\ scan_pc' = IF manifest_objects = 0 THEN "returned" ELSE "writing"
    /\ child' = IF manifest_objects = 0 THEN child ELSE "idle"
    /\ stdin_open' = (manifest_objects # 0)
    /\ UNCHANGED <<manifest_objects, stdin_pipe, stdout_pipe, frames_read>>
    /\ PipeFrame

\* gc.rs:128-130 writeln!(stdin, "{}", sha): one SHA, when the pipe has room
ScanWriteSha ==
    /\ scan_pc = "writing"
    /\ manifest_objects > 0
    /\ stdin_pipe < StdinCapacity
    /\ stdin_pipe' = stdin_pipe + 1
    /\ manifest_objects' = manifest_objects - 1
    /\ UNCHANGED <<scan_pc, stdin_open, child, stdout_pipe, frames_read>>
    /\ PipeFrame

\* gc.rs:132 drop(stdin), after the last SHA
ScanCloseStdin ==
    /\ scan_pc = "writing"
    /\ manifest_objects = 0
    /\ stdin_open' = FALSE
    /\ scan_pc' = "reading"
    /\ UNCHANGED <<manifest_objects, stdin_pipe, child, stdout_pipe, frames_read>>
    /\ PipeFrame

\* cat-file reads one line of its input and looks the object up
ChildRead ==
    /\ child = "idle"
    /\ stdin_pipe > 0
    /\ stdin_pipe' = stdin_pipe - 1
    /\ child' = "holding"
    /\ UNCHANGED <<scan_pc, manifest_objects, stdin_open, stdout_pipe, frames_read>>
    /\ PipeFrame

\* cat-file writes the frame of the object, when the pipe has room
ChildWrite ==
    /\ child = "holding"
    /\ stdout_pipe < StdoutCapacity
    /\ stdout_pipe' = stdout_pipe + 1
    /\ child' = "idle"
    /\ UNCHANGED <<scan_pc, manifest_objects, stdin_pipe, stdin_open, frames_read>>
    /\ PipeFrame

\* cat-file finds the end of its input and exits
ChildExit ==
    /\ child = "idle"
    /\ stdin_pipe = 0
    /\ ~stdin_open
    /\ scan_pc # "spawn"
    /\ child' = "exited"
    /\ UNCHANGED <<scan_pc, manifest_objects, stdin_pipe, stdin_open, stdout_pipe,
                   frames_read>>
    /\ PipeFrame

\* gc.rs:139-173, one turn of the loop: a header line, the content, the
\* newline, and the attempt to parse the content
ScanReadFrame ==
    /\ scan_pc = "reading"
    /\ stdout_pipe > 0
    /\ stdout_pipe' = stdout_pipe - 1
    /\ frames_read' = frames_read + 1
    /\ UNCHANGED <<scan_pc, manifest_objects, stdin_pipe, stdin_open, child>>
    /\ PipeFrame

\* gc.rs:143-145: read_line returns 0 at the end of the stream
ScanEof ==
    /\ scan_pc = "reading"
    /\ stdout_pipe = 0
    /\ child = "exited"
    /\ scan_pc' = "waiting"
    /\ UNCHANGED <<manifest_objects, stdin_pipe, stdin_open, child, stdout_pipe,
                   frames_read>>
    /\ PipeFrame

\* gc.rs:176-177 cat_file.wait()?; Ok(())
ScanWait ==
    /\ scan_pc = "waiting"
    /\ child = "exited"
    /\ scan_pc' = "returned"
    /\ UNCHANGED <<manifest_objects, stdin_pipe, stdin_open, child, stdout_pipe,
                   frames_read>>
    /\ PipeFrame

(***************************************************************************)
(* Properties of SpecStore                                                 *)
(***************************************************************************)
\* C3: a file that exists under a final name <h> holds the complete byte
\* string whose hash is h, in every state reached by interleaved
\* write_blob_atomic calls and crashes.
C3_FinalNameComplete ==
    \A d \in TaskPayloads :
        PathExists(fs_dir, BlobPath(compute_blob_hash(d))) =>
            fs_data[fs_dir[BlobPath(compute_blob_hash(d))]] = d

\* C6: process(save_blobs = true) on a file with two byte-identical tensor
\* payloads returns a manifest, never an error, under every scheduling of
\* the blob-write tasks, and leaves exactly one entry for that payload and
\* no <h>.tmp file.
C6_IdenticalPayloadsOk ==
    \A t, u \in Tasks :
        (t # u /\ task_data[t] = task_data[u] /\ proc_result \in {"ok", "err"}) =>
            /\ proc_result = "ok"
            /\ PathExists(fs_dir, BlobPath(TaskHash(t)))
            /\ ~PathExists(fs_dir, TmpPath(TaskHash(t)))

\* C15: when process(save_blobs = true) returns a manifest, every hash of
\* the manifest has a blob under its final name and reading the blob gives
\* exactly the tensor's payload.
C15_ReturnedBlobsReadable ==
    proc_result = "ok" =>
        \A t \in Tasks :
            /\ PathExists(fs_dir, BlobPath(TaskHash(t)))
            /\ fs_data[fs_dir[BlobPath(TaskHash(t))]] = task_data[t]

\* C27: a run of the ingest that follows a killed one, on the store the
\* killed one left, succeeds and leaves a complete blob for every tensor.
C27_RerunAfterCrashCompletes ==
    (recovering /\ proc_result \in {"ok", "err"}) =>
        /\ proc_result = "ok"
        /\ \A t \in Tasks :
              /\ PathExists(fs_dir, BlobPath(TaskHash(t)))
              /\ fs_data[fs_dir[BlobPath(TaskHash(t))]] = task_data[t]

RECURSIVE SequentialRun(_)
\* the store after the blob-write tasks 1..t ran one after the other
SequentialRun(t) ==
    IF t = 0 THEN EmptyStore
    ELSE save_blob_deduplicated(SequentialRun(t - 1), task_data[t])

\* the hashes that have a blob under their final name
StoredHashes ==
    { n.hash : n \in { m \in FileNames : ~m.tmp /\ PathExists(fs_dir, m) } }

\* C35: every scheduling of the blob-write tasks of process(true) gives the
\* result that running them one after the other gives: a manifest, and the
\* same set of blobs in the store.
C35_ScheduleIndependent ==
    proc_result \in {"ok", "err"} =>
        /\ proc_result = "ok"
        /\ StoredHashes = DOMAIN SequentialRun(NTasks)

\* the calls with bytes `data` that have returned `(hash, true)`
ReturnedNew(data) ==
    { t \in Tasks : task_data[t] = data /\ task_pc[t] = "done" /\ ~task_existed[t] }

\* C37: when the save_blob_deduplicated calls of a run have all returned Ok,
\* among the calls with the same bytes at most one has returned the flag true
\* (the one that wrote the blob), and the blob is in the store.
C37_OneCallReportsNew ==
    proc_result = "ok" =>
        \A t \in Tasks :
            /\ Cardinality(ReturnedNew(task_data[t])) <= 1
            /\ PathExists(fs_dir, BlobPath(TaskHash(t)))

(***************************************************************************)
(* Properties of SpecRestore                                               *)
(***************************************************************************)
\* the bytes a data section holds at data_offsets `off`; <<-1>> when the
\* range does not lie inside the section
Located(data, off) ==
    IF off[1] <= off[2] /\ off[2] <= Len(data)
    THEN SubSeq(data, off[1] + 1, off[2])
    ELSE <<-1>>

\* the data_offsets the restored header gives tensor `name`
RestoredOffsets(name) ==
    LET i == CHOOSE j \in 1..Len(header_map) : header_map[j].name = name
    IN  header_map[i].meta.data_offsets

RestoredNames == {header_map[i].name : i \in 1..Len(header_map)}

\* C1: ingest with save_blobs = true, then restore without filter, yields a
\* file F' in which every tensor t of F has, at t's data_offsets in F', the
\* bytes F has at t's data_offsets.
C1_RoundTripPayload ==
    (rpc = "restored" /\ save_blobs /\ ~rfilter.some) =>
        \A k \in 1..Len(file.header) :
            /\ file.header[k].name \in RestoredNames
            /\ Located(out_data, RestoredOffsets(file.header[k].name))
                 = Located(file.data, file.header[k].data_offsets)

\* C9: after a successful restore, every tensor's header data_offsets
\* [start, end) denote exactly the bytes of blob t.hash in the data section
\* of the output, and every blob was copied to the start pass 1 computed,
\* with end - start bytes.
C9_OffsetsDenoteBlob ==
    rpc = "restored" =>
        /\ \A i \in 1..Len(header_map) :
              Located(out_data, header_map[i].meta.data_offsets)
                = blobs[manifest.tensors[header_map[i].name].hash]
        /\ \A c \in 1..Len(copies) :
              RestoredOffsets(copies[c].name)
                = <<copies[c].pos, copies[c].pos + copies[c].len>>

\* two included tensors share a hash
SharedHashPair(i, j) ==
    /\ i # j
    /\ manifest.tensors[sorted_tensor_names[i]].hash
         = manifest.tensors[sorted_tensor_names[j]].hash

CopiesOf(hash) == {c \in 1..Len(copies) : copies[c].hash = hash}

\* the tensor restore is about to handle was already seen in this pass
AtLaterOccurrence ==
    /\ rpc \in {"pass1", "pass2"}
    /\ ri <= Len(sorted_tensor_names)
    /\ \E i \in 1..(ri - 1) : SharedHashPair(i, ri)

\* C10: two tensors of a restore that share a hash get identical
\* data_offsets and the blob is written once; the pass-1 offset cursor and
\* the pass-2 write cursor do not move at a second or later occurrence.
C10_SharedHashAliased ==
    /\ [](rpc = "restored" =>
            \A i, j \in 1..Len(sorted_tensor_names) :
                SharedHashPair(i, j) =>
                    /\ RestoredOffsets(sorted_tensor_names[i])
                         = RestoredOffsets(sorted_tensor_names[j])
                    /\ Cardinality(CopiesOf(
                           manifest.tensors[sorted_tensor_names[i]].hash)) = 1)
    /\ [][AtLaterOccurrence =>
            /\ current_offset' = current_offset
            /\ current_write_pos' = current_write_pos
            /\ out_data' = out_data]_vars

\* a restore finished in which two tensors share a non-empty blob
C10_Witness ==
    /\ rpc = "restored"
    /\ \E i, j \in 1..Len(sorted_tensor_names) :
          /\ SharedHashPair(i, j)
          /\ Len(blobs[manifest.tensors[sorted_tensor_names[i]].hash]) > 0

\* the 0-based positions of the data section no tensor's data_offsets cover
\* and that lie before the start of some tensor
GapPositions ==
    { p \in 0..(Len(out_data) - 1) :
        /\ \A i \in 1..Len(header_map) :
              ~(header_map[i].meta.data_offsets[1] <= p
                  /\ p < header_map[i].meta.data_offsets[2])
        /\ \E i \in 1..Len(header_map) : p < header_map[i].meta.data_offsets[1] }

\* C11: in a restored file every tensor starts at a multiple of 8, the
\* first tensor starts at 0, and every byte of the data section between the
\* end of one tensor and the start of the next is zero.
C11_AlignedZeroPadded ==
    rpc = "restored" =>
        /\ \A i \in 1..Len(header_map) : header_map[i].meta.data_offsets[1] % 8 = 0
        /\ header_map # <<>> => header_map[1].meta.data_offsets[1] = 0
        /\ \A p \in GapPositions : out_data[p + 1] = 0

\* C14: every tensor of the manifest process returns carries the hash of the
\* file bytes its header entry's data_offsets locate, so two names with
\* byte-identical payloads carry the same hash.
C14_HashOfPayload ==
    rpc \notin {"opened", "process_failed", "process_panicked"} =>
        \A k, j \in 1..Len(file.header) :
            LET ek == file.header[k]
                ej == file.header[j]
            IN  /\ ek.name \in DOMAIN manifest.tensors
                /\ manifest.tensors[ek.name].hash
                     = compute_blob_hash(Located(file.data, ek.data_offsets))
                /\ Located(file.data, ek.data_offsets) = Located(file.data, ej.data_offsets)
                     => manifest.tensors[ek.name].hash = manifest.tensors[ej.name].hash

\* process returned a manifest in which two names share a non-empty payload
C14_Witness ==
    /\ rpc = "processed"
    /\ \E k, j \in 1..Len(file.header) :
          /\ k # j
          /\ file.header[k].data_offsets[1] < file.header[k].data_offsets[2]
          /\ manifest.tensors[file.header[k].name].hash
               = manifest.tensors[file.header[j].name].hash

\* the manifest process() returned
Returned == rpc \notin {"opened", "process_failed", "process_panicked"}

\* C16: in a manifest process returns over a header of n entries the index
\* values are exactly 0..n-1, one tensor each, and a tensor's index is the
\* position of its entry in the header, whatever order the hashing tasks
\* finished in.
C16_IndexIsHeaderPosition ==
    Returned =>
        /\ Cardinality(DOMAIN manifest.tensors) = Len(file.header)
        /\ {manifest.tensors[n].index : n \in DOMAIN manifest.tensors}
             = 0..(Len(file.header) - 1)
        /\ \A n, o \in DOMAIN manifest.tensors :
              manifest.tensors[n].index = manifest.tensors[o].index => n = o
        /\ \A k \in 1..Len(file.header) :
              manifest.tensors[file.header[k].name].index = k - 1

\* a manifest of two tensors whose hashing tasks finished last one first
C16_Witness ==
    /\ rpc = "processed"
    /\ Len(file.header) = MaxTensors
    /\ finish_order[1] = Len(file.header)

IndexOf(name) == manifest.tensors[name].index

\* C17: restore lists the included tensors in ascending index order in the
\* output header and writes their payloads in that order into the data
\* section, whatever the lexicographic order of the names is.
C17_RestoreInIndexOrder ==
    rpc = "restored" =>
        /\ \A i, j \in 1..Len(header_map) :
              i < j => IndexOf(header_map[i].name) < IndexOf(header_map[j].name)
        /\ \A c, d \in 1..Len(copies) :
              c < d => /\ IndexOf(copies[c].name) < IndexOf(copies[d].name)
                       /\ copies[c].pos + copies[c].len <= copies[d].pos

\* a restore of two payloads whose index order is not the order of the names
C17_Witness ==
    /\ rpc = "restored"
    /\ Len(copies) >= 2
    /\ \E i, j \in 1..Len(header_map) :
          /\ i < j
          /\ LexLess(header_map[j].name, header_map[i].name)
          /\ copies[1].name = header_map[i].name
          /\ copies[2].name = header_map[j].name

\* the range header entry k declares ends past the end of the file
EndsPastFile(k) ==
    file.header_len + 8 + file.header[k].data_offsets[2] > Len(file.data) + file.header_len + 8

StartsPastEnd(k) == file.header[k].data_offsets[1] > file.header[k].data_offsets[2]

Stretches(str) ==
    { st \in (1..(Len(str) + 1)) \X (0..Len(str)) :
        /\ st[1] <= st[2] + 1
        /\ st[1] = 1 \/ str[st[1] - 1] = Comma
        /\ st[2] = Len(str) \/ str[st[2] + 1] = Comma
        /\ \A k \in st[1]..st[2] : str[k] # Comma }

\* the terms of str: each stretch without the spaces around it
TrimmedTerms(str) ==
    LET sts == Stretches(str)
    IN  UNION { { SubSeq(str, a, b) :
                    a \in { a \in st[1]..(st[2] + 1) :
                             /\ \A k \in st[1]..(a - 1) : str[k] = Space
                             /\ a <= st[2] => str[a] # Space },
                    b \in { b \in (st[1] - 1)..st[2] :
                             /\ \A k \in (b + 1)..st[2] : str[k] = Space
                             /\ b >= st[1] => str[b] # Space } }
                : st \in sts }

IsSubstring(term, name) ==
    \E i \in 0..(Len(name) - Len(term)) : SubSeq(name, i + 1, i + Len(term)) = term

Matching(names, str) ==
    LET terms == TrimmedTerms(str)
    IN  { n \in names : \E term \in terms : IsSubstring(term, n) }

Restoring == rpc \in {"pass1", "pass2", "restored", "restore_failed"}

\* C23: with a filter, restore includes a tensor exactly when its name
\* contains one of the comma-separated terms, each trimmed of whitespace;
\* when no name matches, restore succeeds with a header of no entries and
\* an empty data section.
C23_FilterBySubstring ==
    (Restoring /\ rfilter.some) =>
        LET matching == Matching(DOMAIN manifest.tensors, rfilter.str)
        IN  /\ { sorted_tensor_names[i] : i \in 1..Len(sorted_tensor_names) } = matching
            /\ matching = {} =>
                  /\ rpc # "restore_failed"
                  /\ header_map = <<>>
                  /\ out_data = <<>>

\* restores finished with a filter whose term had to be trimmed and kept
\* some tensors but not all
C23_Witness ==
    /\ rpc = "restored"
    /\ rfilter = SomeFilter(<<32, 97>>)
    /\ sorted_tensor_names # <<>>
    /\ Len(sorted_tensor_names) < Cardinality(DOMAIN manifest.tensors)

\* the header entry restore writes for the i-th included tensor
RestoredEntryDoc(i) == SerializeRawMeta(header_map[i].meta)

\* the position of a name in the header of the input
HeaderPos(name) == CHOOSE k \in 1..Len(file.header) : file.header[k].name = name

NeededHashes ==
    { manifest.tensors[sorted_tensor_names[i]].hash : i \in 1..Len(sorted_tensor_names) }

\* the first included tensor, in restore order, that carries the hash
FirstCarrier(hash) ==
    sorted_tensor_names[
        CHOOSE i \in 1..Len(sorted_tensor_names) :
            /\ manifest.tensors[sorted_tensor_names[i]].hash = hash
            /\ \A j \in 1..(i - 1) : manifest.tensors[sorted_tensor_names[j]].hash # hash]

\* C25: restore fails with an I/O error whenever the blob of a tensor it
\* has to write is missing, and succeeds only when the blob of every
\* included hash was copied into the output, for its first carrier.
C25_MissingBlobFails ==
    /\ rpc = "restored" =>
          \A h \in NeededHashes :
              /\ blob_exists(blobs, h)
              /\ \E c \in 1..Len(copies) :
                    /\ copies[c].hash = h
                    /\ copies[c].name = FirstCarrier(h)
                    /\ SubSeq(out_data, copies[c].pos + 1, copies[c].pos + copies[c].len)
                         = blobs[h]
    /\ rpc = "restore_failed" => \E h \in NeededHashes : ~blob_exists(blobs, h)
    /\ (rpc = "pass2" /\ \E h \in NeededHashes : ~blob_exists(blobs, h)) =>
          ri <= Len(sorted_tensor_names)

\* a restore that failed on a missing blob after it had copied another
C25_Witness ==
    /\ rpc = "restore_failed"
    /\ Len(copies) >= 1

\* C26: a restore that fails leaves no file at output_path.
C26_FailedRestoreLeavesNoOutput ==
    rpc = "restore_failed" => ~out_exists

\* the declared range of header entry k does not lie within the file
RangeOutsideFile(f, k) ==
    LET e == f.header[k]
    IN  \/ absolute_end(f, e) > MmapLen(f)
        \/ absolute_start(f, e) > absolute_end(f, e)

\* C20: whenever the byte range of a header entry is not contained in the
\* file, process fails with TensorCorruption naming such a tensor; it
\* never panics.
C20_BadRangeIsTensorCorruption ==
    (rpc # "opened" /\ \E k \in 1..Len(file.header) : RangeOutsideFile(file, k)) =>
        /\ rpc = "process_failed"
        /\ process_error.kind = "TensorCorruption"
        /\ \E k \in 1..Len(file.header) :
              /\ RangeOutsideFile(file, k)
              /\ process_error.name = file.header[k].name

(***************************************************************************)
(* Properties of SpecRepo                                                  *)
(***************************************************************************)
\* every hash a manifest of the working tree names, in whatever directory
TreeReferenced ==
    UNION { tree[k].hashes : k \in { j \in TreeFiles : tree[j].exists /\ tree[j].parses } }

\* every hash a manifest recorded in version-control history names
HistoryReferenced ==
    UNION { o.hashes : o \in { m \in git_objects :
                m.parses /\ EndsWithVektJson(m.path[Len(m.path)]) } }

\* C2: a garbage collection that ran to its end with no other invocation
\* running leaves in the store every blob that was there when it started and
\* that a *.vekt.json of the working tree (any subdirectory) or of the
\* version-control history references.
C2_GcKeepsReferenced ==
    \A p \in Procs :
        (cmd[p] = "gc" /\ ppc[p] = "done" /\ gc_alone[p]) =>
            \A h \in (TreeReferenced \cup HistoryReferenced) \cap gc_start_blobs[p] :
                h \in repo_blobs

\* C4: at most one mutating invocation (add, gc) is at work on the repository
\* at any time.
C4_OneMutatorAtATime ==
    \A p, q \in Procs : (Running(p) /\ Running(q)) => p = q

\* C5: once add has written a manifest, every hash the manifest lists has its
\* blob in the store, whatever garbage collection interleaves.
C5_AddedManifestHasBlobs ==
    \A p \in Procs :
        (cmd[p] = "add" /\ tree[p].exists /\ tree[p].parses) =>
            tree[p].hashes \subseteq repo_blobs

\* C12: a blob referenced only by a manifest recorded in version-control
\* history (at any path ending in .vekt.json) and by no working-tree manifest
\* is kept by a garbage collection that runs alone.
C12_HistoryOnlyBlobKept ==
    \A p \in Procs :
        (cmd[p] = "gc" /\ ppc[p] = "done" /\ gc_alone[p]) =>
            \A h \in (HistoryReferenced \ TreeReferenced) \cap gc_start_blobs[p] :
                h \in repo_blobs

LockHolders == { p \in Procs : lock_held[p] }

\* invocation p returns from LockFile::lock() in this step
LockReturns(p) == cmd[p] = "add" /\ ppc[p] = "start" /\ ppc'[p] # "start"

\* C7: while one LockFile is alive every other lock() fails, so at most one
\* is alive, and lock() succeeds whenever none is alive (in particular after
\* the previous one was dropped).
C7_LockExclusive ==
    /\ [](Cardinality(LockHolders) <= 1)
    /\ [][\A p \in Procs :
            LockReturns(p) =>
                IF LockHolders = {} THEN lock_held'[p] /\ ppc'[p] = "open"
                ELSE ~lock_held'[p] /\ ppc'[p] = "lock_refused"]_vars

\* a lock() refused while another invocation holds the lock
C7_Witness ==
    \E p, q \in Procs :
        /\ ppc[p] = "lock_refused"
        /\ lock_held[q]

\* invocation p of add ends in this step, having acquired the lock
AddEnds(p) ==
    cmd[p] = "add" /\ lock_held[p] /\ ppc'[p] \in {"done", "failed"}

\* C8: an add that acquired the lock ends with the lock file removed and its
\* LockFile dropped, on success and on every error path (open, process,
\* serialization, manifest creation and writing).
C8_AddReleasesLock ==
    /\ [](\A p \in Procs :
            (cmd[p] = "add" /\ ppc[p] \in {"done", "failed"}) =>
                /\ ~lock_held[p]
                /\ lock_file => LockHolders # {})
    /\ [][\A p \in Procs : AddEnds(p) => ~lock_file' /\ ~lock_held'[p]]_vars

\* an add that failed while writing its manifest, the lock file gone
C8_Witness ==
    \E p \in Procs :
        /\ cmd[p] = "add"
        /\ ppc[p] = "failed"
        /\ tree[p].exists
        /\ ~tree[p].parses
        /\ ~lock_file

\* a *.vekt.json that does not parse lies in the working tree or the history
SomeManifestBroken ==
    \/ \E k \in TreeFiles : tree[k].exists /\ ~tree[k].parses
    \/ \E o \in git_objects : ~o.parses

\* C29: with a manifest that does not parse in the working tree or in the
\* history, a garbage collection that ran alone to its end has kept every
\* blob that the manifests which do parse reference.
C29_BrokenManifestSkipped ==
    \A p \in Procs :
        (cmd[p] = "gc" /\ ppc[p] = "done" /\ gc_alone[p] /\ SomeManifestBroken) =>
            (TreeReferenced \cup HistoryReferenced) \cap gc_start_blobs[p]
                \subseteq repo_blobs

\* C30: the scan of the history never makes run_gc fail: without a .git
\* directory, and with git not startable or exiting unsuccessfully, the
\* collection goes on to the sweep, and without .git it does so with the
\* working-tree manifests alone as the referenced set.
C30_GcToleratesMissingVcs ==
    [][\A p \in Procs :
         (cmd[p] = "gc" /\ ppc[p] = "history" /\ ppc'[p] # "history") =>
            /\ ppc'[p] = "read_dir"
            /\ ~git_dir => gc_refs'[p] = gc_refs[p]]_vars

\* C28: once the invocation holding the lock was ended by an interrupt
\* signal the lock is free again: no lock file is left without a live holder,
\* so the next lock() succeeds with nothing removed by hand.
C28_InterruptDropsLock ==
    (\E p \in Procs : ppc[p] = "interrupted") =>
        (lock_file => LockHolders # {})

\* C38: a lock() that fails leaves the lock file and its holder as they
\* were, and the lock file only ever goes away in a step in which an
\* invocation that held the lock drops its LockFile.
C38_RefusedLockKeepsFile ==
    [][/\ \A p \in Procs :
            ppc[p] = "start" /\ ppc'[p] = "lock_refused" =>
                /\ lock_file /\ lock_file'
                /\ lock_held' = lock_held
                /\ LockHolders # {}
       /\ lock_file /\ ~lock_file' =>
            \E q \in Procs : lock_held[q] /\ ~lock_held'[q]]_vars

\* an add refused the lock while the holder, past its open, still holds it
C38_Witness ==
    \E p, q \in Procs :
        /\ ppc[p] = "lock_refused"
        /\ lock_held[q]
        /\ ppc[q] \notin {"start", "open"}
        /\ lock_file

\* C36: run_gc deletes no blob before both of its scans have completed, and
\* when a scan returns an error, run_gc returns that error and has deleted
\* nothing from the store.
C36_NoSweepBeforeScans ==
    [][/\ \A p \in Procs :
            cmd[p] = "gc" /\ ppc'[p] # ppc[p] /\ ppc[p] \in {"start", "history"} =>
                /\ repo_blobs' = repo_blobs
                /\ gc_error'[p] => ppc'[p] = "failed"
       /\ \A p \in Procs :
            cmd[p] = "gc" /\ gc_error[p] =>
                /\ ppc'[p] = "failed"
                /\ gc_stats'[p] = [deleted |-> 0, kept |-> 0]]_vars

\* A collection whose history scan failed after its tree scan found references,
\* with unreferenced blobs still in the store.
C36_Witness ==
    \E p \in Procs :
        /\ cmd[p] = "gc"
        /\ gc_error[p]
        /\ ppc[p] = "failed"
        /\ gc_refs[p] # {}
        /\ repo_blobs \ gc_refs[p] # {}
        /\ repo_blobs = gc_start_blobs[p]

(***************************************************************************)
(* Properties of SpecManifest                                              *)
(***************************************************************************)
\* the keys of the `tensors` object of a document, in document order
TensorKeys(doc) ==
    LET members == Field(doc, "tensors").v
    IN  [i \in 1..Len(members) |-> members[i][1]]

Ascending(names) ==
    \A i \in 1..(Len(names) - 1) : LexLess(names[i], names[i + 1])

C19_SerializationIgnoresHistory ==
    (\A x \in Builders : mf_pc[x] # "build") =>
        /\ \A x, y \in Builders : mf_json[x] = mf_json[y]
        /\ \A x \in Builders :
              /\ Ascending(TensorKeys(mf_json[x]))
              /\ Len(TensorKeys(mf_json[x])) = Cardinality(DOMAIN mf_target)

\* both manifests are serialized and their insertion orders differ
C19_Witness ==
    /\ \A x \in Builders : mf_pc[x] # "build"
    /\ mf_hist[1] # mf_hist[2]
    /\ Len(mf_hist[1]) >= 2

\* the keys of a JSON object, in document order
MemberKeys(obj) == [i \in 1..Len(obj.v) |-> obj.v[i][1]]

\* C31: the serialized manifest lists the keys tensors, version, total_size
\* in that order, and each tensor entry lists shape, dtype, hash, index and
\* then the keys of extra themselves, in extra's insertion order, with no
\* member named "extra".
C31_ExtraSplicedInline ==
    \A x \in Builders :
        mf_pc[x] # "build" =>
            /\ MemberKeys(mf_json[x]) = <<"tensors", "version", "total_size">>
            /\ \A i \in 1..Len(mf_tensors[x]) :
                  LET entry == Field(mf_json[x], "tensors").v[i][2]
                      extra == mf_tensors[x][i].tensor.extra
                  IN  /\ SubSeq(MemberKeys(entry), 1, 4)
                            = <<"shape", "dtype", "hash", "index">>
                      /\ ~HasField(entry, "extra")
                      /\ Len(entry.v) = 4 + Len(extra)
                      /\ \A j \in 1..Len(extra) :
                            entry.v[4 + j] = <<extra[j][1], JNum(extra[j][2])>>

(***************************************************************************)
(* Properties of SpecOpen                                                  *)
(***************************************************************************)
\* 8 + H > L over the integers, for L below 2^16
ExceedsFile(h, len) == (\E i \in 2..Len(h) : h[i] # 0) \/ h[1] + 8 > len

\* C21: open returns InvalidSafetensor("File too small") when L < 8 and
\* InvalidSafetensor("Header length exceeds file size") when L >= 8 and
\* 8 + H > L over the integers, H close to 2^64 included; it never panics.
C21_OpenRejectsBadLengths ==
    open_result # NotOpened =>
        /\ open_len < 8 => open_result = InvalidSafetensor("File too small")
        /\ (open_len >= 8 /\ ExceedsFile(open_header_len, open_len)) =>
              open_result = InvalidSafetensor("Header length exceeds file size")
        /\ open_result # OpenPanic

(***************************************************************************)
(* Properties of SpecDiscover                                              *)
(***************************************************************************)
\* the ancestors of dir, dir included, that contain a .vekt directory
WithVektDir(vekt, dir) == { k \in 0..dir : vekt[k] = "dir" }

\* the deepest of them
NearestRoot(vekt, dir) ==
    LET with == WithVektDir(vekt, dir)
    IN  IF with = {} THEN None
        ELSE Some(CHOOSE k \in with : \A j \in with : j <= k)

C40_RemoteKeepsRoot ==
    [][(/\ disc_cmd = "none"
        /\ disc_cmd' \in {"remote_add", "remote_remove"}
        /\ find_vekt_root(dot_vekt, cwd).some) =>
           /\ dot_vekt' = dot_vekt
           /\ find_vekt_root(dot_vekt', cwd') = find_vekt_root(dot_vekt, cwd)
           /\ get_store_path(dot_vekt', cwd') = get_store_path(dot_vekt, cwd)
           /\ \A d \in Levels \ {find_vekt_root(dot_vekt, cwd).dir} :
                 config_json'[d] = config_json[d]]_vars

(***************************************************************************)
(* Properties of SpecCli                                                   *)
(***************************************************************************)
\* C33: a subcommand exits with a nonzero code whenever an operation it ran
\* failed, and with 0 only when none did.
C33_ExitCodeTellsFailure ==
    cli_done => (cli_exit = ExitSuccess <=> cli_failed = {})

(***************************************************************************)
(* Properties of SpecPipe                                                  *)
(***************************************************************************)
\* the collector is blocked in writeln! on a full stdin pipe
ParentBlockedWriting ==
    scan_pc = "writing" /\ manifest_objects > 0 /\ stdin_pipe = StdinCapacity

\* the child is blocked writing a frame to a full stdout pipe
ChildBlockedWriting ==
    child = "holding" /\ stdout_pipe = StdoutCapacity

\* C34: the scan of the history is never stuck: in no reachable state is the
\* collector blocked writing SHAs while the child is blocked writing output.
C34_ScanNeverStuck ==
    ~(ParentBlockedWriting /\ ChildBlockedWriting)

(***************************************************************************)
(* Properties of SpecDiff                                                  *)
(***************************************************************************)
\* the four sets of a TensorDiff are pairwise disjoint, cover the names of the
\* two manifests, and each holds the names its field stands for
TensorDiffPartitions(d, old, new) ==
    /\ d.added = { k \in TensorNames : new.tensors[k] # Absent /\ old.tensors[k] = Absent }
    /\ d.removed = { k \in TensorNames : old.tensors[k] # Absent /\ new.tensors[k] = Absent }
    /\ d.modified = { k \in TensorNames :
          /\ old.tensors[k] # Absent /\ new.tensors[k] # Absent
          /\ old.tensors[k] # new.tensors[k] }
    /\ d.unchanged = { k \in TensorNames :
          old.tensors[k] # Absent /\ old.tensors[k] = new.tensors[k] }
    /\ d.added \cup d.removed \cup d.modified \cup d.unchanged = keys(old) \cup keys(new)
    /\ \A f, g \in {"added", "removed", "modified", "unchanged"} :
          f # g => d[f] \cap d[g] = {}

\* C39: diff(old, new) returns a comparison whose four name sets partition
\* the names of the two manifests into added, removed, modified and
\* unchanged, and whose size_change is new.total_size minus old.total_size.
C39_DiffPartitionsAndSizes ==
    diff_pc # "ready" =>
        /\ diff_pc = "done"
        /\ TensorDiffPartitions(comparison.tensor_diff, diff_old, diff_new)
        /\ comparison.size_change = diff_new.total_size - diff_old.total_size

(***************************************************************************)
(* The specifications                                                      *)
(***************************************************************************)
RepoIdle ==
    /\ cmd = [p \in Procs |-> "none"]
    /\ ppc = [p \in Procs |-> "done"]
    /\ lock_file = FALSE
    /\ lock_held = [p \in Procs |-> FALSE]
    /\ repo_blobs = {}
    /\ tree = [k \in TreeFiles |-> NoManifest]
    /\ git_dir = FALSE
    /\ git_objects = {}
    /\ add_input = [p \in Procs |-> "ok"]
    /\ add_todo = [p \in Procs |-> {}]
    /\ gc_refs = [p \in Procs |-> {}]
    /\ gc_list = [p \in Procs |-> {}]
    /\ gc_seen = [p \in Procs |-> {}]
    /\ gc_stats = [p \in Procs |-> [deleted |-> 0, kept |-> 0]]
    /\ gc_alone = [p \in Procs |-> FALSE]
    /\ gc_start_blobs = [p \in Procs |-> {}]
    /\ gc_error = [p \in Procs |-> FALSE]

RestoreIdle ==
    /\ file = MakeFile(<<>>)
    /\ manifest = EmptyManifest
    /\ blobs = EmptyStore
    /\ rpc = "idle"
    /\ save_blobs = FALSE
    /\ rfilter = NoFilter
    /\ sorted_tensor_names = <<>>
    /\ ri = 1
    /\ header_map = <<>>
    /\ current_offset = 0
    /\ written_hashes = [h \in {} |-> <<0, 0>>]
    /\ current_write_pos = 0
    /\ out_data = <<>>
    /\ copies = <<>>
    /\ finish_order = <<>>
    /\ process_error = NoError
    /\ out_exists = FALSE

ManifestIdle ==
    /\ mf_target = [n \in {} |-> 0]
    /\ mf_tensors = [x \in Builders |-> NoTensors]
    /\ mf_hist = [x \in Builders |-> <<>>]
    /\ mf_pc = [x \in Builders |-> "none"]
    /\ mf_json = [x \in Builders |-> NoDocument]
    /\ mf_parsed = [x \in Builders |-> NoManifestParsed]
    /\ mf_rejson = [x \in Builders |-> NoDocument]

DiscIdle ==
    /\ cwd = 0
    /\ dot_vekt = [d \in Levels |-> "none"]
    /\ config_json = [d \in Levels |-> NoConfig]
    /\ env_vekt_root = None
    /\ disc_cmd = "none"
    /\ disc_result = NotRun

CliIdle ==
    /\ cli_cmd = "add"
    /\ cli_faults = {}
    /\ cli_pc = 1
    /\ cli_failed = {}
    /\ cli_done = TRUE
    /\ cli_exit = ExitSuccess

PipeIdle ==
    /\ scan_pc = "returned"
    /\ manifest_objects = 0
    /\ stdin_pipe = 0
    /\ stdin_open = FALSE
    /\ child = "exited"
    /\ stdout_pipe = 0
    /\ frames_read = 0

DiffIdle ==
    /\ diff_old = EmptyDiffManifest
    /\ diff_new = EmptyDiffManifest
    /\ diff_pc = "done"
    /\ comparison = NoComparison

AuxIdle == DiscIdle /\ CliIdle /\ PipeIdle /\ DiffIdle

OpenIdle ==
    /\ open_len = 0
    /\ open_header_len = <<0, 0, 0, 0>>
    /\ open_checks = FALSE
    /\ open_content = "ok"
    /\ open_result = InvalidSafetensor("File too small")

StoreIdle ==
    /\ fs_dir = [n \in FileNames |-> 0]
    /\ fs_data = [i \in Inodes |-> <<>>]
    /\ task_data = [t \in Tasks |-> <<>>]
    /\ task_pc = [t \in Tasks |-> "none"]
    /\ task_fd = [t \in Tasks |-> 0]
    /\ task_off = [t \in Tasks |-> 0]
    /\ task_existed = [t \in Tasks |-> FALSE]
    /\ proc_result = "idle"
    /\ recovering = FALSE

InitStore ==
    /\ RestoreIdle
    /\ RepoIdle
    /\ ManifestIdle
    /\ OpenIdle
    /\ AuxIdle
    /\ fs_dir = [n \in FileNames |-> 0]
    /\ fs_data = [i \in Inodes |-> <<>>]
    /\ task_data \in [Tasks -> TaskPayloads]
    /\ task_pc = [t \in Tasks |-> "queued"]
    /\ task_fd = [t \in Tasks |-> 0]
    /\ task_off = [t \in Tasks |-> 0]
    /\ task_existed = [t \in Tasks |-> FALSE]
    /\ proc_result = "running"
    /\ recovering = FALSE

NextStore ==
    \/ \E t \in Tasks :
          \/ TaskStart(t)
          \/ TaskSkip(t)
          \/ SaveBlobCheck(t)
          \/ WriteBlobCheck(t)
          \/ WriteBlobCreate(t)
          \/ WriteBlobWrite(t)
          \/ WriteBlobSync(t)
          \/ WriteBlobRename(t)
    \/ ProcessReturn
    \/ Crash
    \/ Restart

SpecStore == InitStore /\ [][NextStore]_vars

InitRestore ==
    /\ StoreIdle
    /\ RepoIdle
    /\ ManifestIdle
    /\ OpenIdle
    /\ AuxIdle
    /\ \E f \in ValidFiles : file \in {f} \cup MalformedFiles(f)
    /\ finish_order \in FinishOrders(Len(file.header))
    /\ process_error = NoError
    /\ out_exists = FALSE
    /\ manifest = EmptyManifest
    /\ blobs = EmptyStore
    /\ rpc = "opened"
    /\ save_blobs = FALSE
    /\ rfilter = NoFilter
    /\ sorted_tensor_names = <<>>
    /\ ri = 1
    /\ header_map = <<>>
    /\ current_offset = 0
    /\ written_hashes = [h \in {} |-> <<0, 0>>]
    /\ current_write_pos = 0
    /\ out_data = <<>>
    /\ copies = <<>>

NextRestore ==
    \/ Process
    \/ LoseBlob
    \/ RestoreBegin
    \/ RestorePass1Step
    \/ RestoreWriteHeader
    \/ RestorePass2Step
    \/ RestoreFinish

SpecRestore == InitRestore /\ [][NextRestore]_vars

InitRepo ==
    /\ RestoreIdle
    /\ StoreIdle
    /\ ManifestIdle
    /\ OpenIdle
    /\ AuxIdle
    /\ cmd \in [Procs -> {"add", "gc"}]
    /\ ppc = [p \in Procs |-> "start"]
    /\ lock_file = FALSE
    /\ lock_held = [p \in Procs |-> FALSE]
    /\ repo_blobs = InitialBlobs
    /\ git_dir \in BOOLEAN
    /\ \E d \in OldManifestDirs, path \in HistoryPaths, broken \in BOOLEAN :
         /\ tree = [k \in TreeFiles |->
                     IF k = 0
                     THEN [exists |-> TRUE, dirs |-> d, parses |-> TRUE,
                           hashes |-> {"h3"}]
                     ELSE IF k = BrokenFile /\ broken THEN BrokenManifest
                     ELSE NoManifest]
         /\ git_objects =
               IF git_dir
               THEN { [sha |-> "c0ffee", path |-> path, parses |-> TRUE,
                       hashes |-> {"h4"}] }
                    \cup (IF broken THEN {BrokenObject} ELSE {})
               ELSE {}
    /\ add_input \in [Procs -> {"ok", "bad_header", "corrupt_tensor"}]
    /\ \A p \in Procs : cmd[p] = "gc" => add_input[p] = "ok"
    /\ add_todo = [p \in Procs |-> {}]
    /\ gc_refs = [p \in Procs |-> {}]
    /\ gc_list = [p \in Procs |-> {}]
    /\ gc_seen = [p \in Procs |-> {}]
    /\ gc_stats = [p \in Procs |-> [deleted |-> 0, kept |-> 0]]
    /\ gc_alone = [p \in Procs |-> FALSE]
    /\ gc_start_blobs = [p \in Procs |-> {}]
    /\ gc_error = [p \in Procs |-> FALSE]

AddSteps(p) ==
    \/ AddLock(p)
    \/ AddOpen(p)
    \/ AddHash(p)
    \/ AddWriteBlob(p)
    \/ AddSerialize(p)
    \/ AddCreateManifest(p)
    \/ AddWriteManifest(p)
    \/ AddFinish(p)

GcSteps(p) ==
    \/ GcScanTree(p)
    \/ GcScanHistory(p)
    \/ GcReadDir(p)
    \/ GcSweepEntry(p)
    \/ GcSeeNewEntry(p)
    \/ GcReturn(p)

NextRepo == \E p \in Procs : AddSteps(p) \/ GcSteps(p)

SpecRepo == InitRepo /\ [][NextRepo]_vars

\* SpecAdd: every invocation is `vekt add`, in a repository without history
InitAdd ==
    /\ InitRepo
    /\ cmd = [p \in Procs |-> "add"]
    /\ tree[0].dirs = <<>>
    /\ ~git_dir

NextAdd == \E p \in Procs : AddSteps(p)

SpecAdd == InitAdd /\ [][NextAdd]_vars

\* SpecInterrupt: SpecAdd with the invocations open to an interrupt signal
NextInterrupt == \E p \in Procs : AddSteps(p) \/ Interrupt(p)

SpecInterrupt == InitAdd /\ [][NextInterrupt]_vars

\* SpecGc: every invocation is `vekt gc`, every manifest is well-formed
InitGc ==
    /\ InitRepo
    /\ cmd = [p \in Procs |-> "gc"]
    /\ ~tree[BrokenFile].exists

\* no entry appears in the blob directory while only collections run
NextGc ==
    \E p \in Procs :
        \/ GcScanTree(p)
        \/ GcScanHistory(p)
        \/ GcReadDir(p)
        \/ GcSweepEntry(p)
        \/ GcReturn(p)

SpecGc == InitGc /\ [][NextGc]_vars

InitManifest ==
    /\ RestoreIdle
    /\ StoreIdle
    /\ RepoIdle
    /\ OpenIdle
    /\ AuxIdle
    /\ mf_target \in Targets
    /\ mf_tensors = [x \in Builders |-> NoTensors]
    /\ mf_hist = [x \in Builders |-> <<>>]
    /\ mf_pc = [x \in Builders |-> "build"]
    /\ mf_json = [x \in Builders |-> NoDocument]
    /\ mf_parsed = [x \in Builders |-> NoManifestParsed]
    /\ mf_rejson = [x \in Builders |-> NoDocument]

NextManifest ==
    \E x \in Builders :
        \/ ManifestInsert(x)
        \/ ManifestSerialize(x)
        \/ ManifestParse(x)
        \/ ManifestReserialize(x)

SpecManifest == InitManifest /\ [][NextManifest]_vars

InitOpen ==
    /\ RestoreIdle
    /\ StoreIdle
    /\ RepoIdle
    /\ ManifestIdle
    /\ AuxIdle
    /\ open_len \in 0..MaxFileLen
    /\ open_header_len \in HeaderLens
    /\ open_checks \in BOOLEAN
    /\ open_content \in {"ok", "bad_utf8", "bad_json"}
    /\ open_result = NotOpened

NextOpen == Open

SpecOpen == InitOpen /\ [][NextOpen]_vars

\* the state before discovery or a command runs
MainIdle ==
    /\ RestoreIdle
    /\ StoreIdle
    /\ RepoIdle
    /\ ManifestIdle
    /\ OpenIdle

InitDiscover ==
    /\ MainIdle
    /\ DiffIdle
    /\ CliIdle
    /\ PipeIdle
    /\ cwd \in Levels
    /\ dot_vekt \in [Levels -> VektKinds]
    /\ config_json \in [Levels -> {NoConfig, Config({"origin"})}]
    /\ \A d \in Levels : config_json[d].exists => dot_vekt[d] = "dir"
    /\ env_vekt_root \in {None} \cup {Some(d) : d \in Levels}
    /\ disc_cmd = "none"
    /\ disc_result = NotRun

NextDiscover ==
    \/ FindRoot
    \/ GetStorePath
    \/ RemoteAdd
    \/ RemoteRemove

SpecDiscover == InitDiscover /\ [][NextDiscover]_vars

InitCli ==
    /\ MainIdle
    /\ DiffIdle
    /\ DiscIdle
    /\ PipeIdle
    /\ cli_cmd \in CliCommands
    /\ cli_faults \in SUBSET CliPoints(cli_cmd)
    /\ cli_pc = 1
    /\ cli_failed = {}
    /\ cli_done = FALSE
    /\ cli_exit = ExitSuccess

NextCli == CliStep \/ CliReturn

SpecCli == InitCli /\ [][NextCli]_vars

InitPipe ==
    /\ MainIdle
    /\ DiffIdle
    /\ DiscIdle
    /\ CliIdle
    /\ scan_pc = "spawn"
    /\ manifest_objects \in 0..MaxObjects
    /\ stdin_pipe = 0
    /\ stdin_open = FALSE
    /\ child = "exited"
    /\ stdout_pipe = 0
    /\ frames_read = 0

NextPipe ==
    \/ ScanSpawn
    \/ ScanWriteSha
    \/ ScanCloseStdin
    \/ ChildRead
    \/ ChildWrite
    \/ ChildExit
    \/ ScanReadFrame
    \/ ScanEof
    \/ ScanWait

SpecPipe == InitPipe /\ [][NextPipe]_vars

InitDiff ==
    /\ MainIdle
    /\ DiscIdle
    /\ CliIdle
    /\ PipeIdle
    /\ diff_old \in DiffManifests
    /\ diff_new \in DiffManifests
    /\ diff_pc = "ready"
    /\ comparison = NoComparison

NextDiff == Diff

SpecDiff == InitDiff /\ [][NextDiff]_vars

====
